---- MODULE Spec2Model ----
(***************************************************************************)
(* Slide curation pipeline of ai-youtube-kb: the curation progress store   *)
(* (scripts/curation_progress.py), the metadata/disk reconciliation        *)
(* (scripts/sync_slide_metadata.py), the human review loop                 *)
(* (scripts/review_slides.py) and the credit overlay                       *)
(* (scripts/add_credit_overlay.py).                                        *)
(*                                                                         *)
(* Python dicts are functions from keys to values; dict.get(k) on a        *)
(* missing key is None, which is falsy.  datetime.now() is a logical       *)
(* clock read once per call.                                               *)
(***************************************************************************)
EXTENDS Integers, Sequences, FiniteSets, TLC

VARIABLES
    progressFile,   \* .curation_progress.json: [state, data]
    clock,          \* datetime.now(), a logical clock
    calls,          \* number of handler invocations so far
    pc,             \* per process: position inside update_video_progress
    local,          \* per process: the progress dict held in memory
    req,            \* per process: the call in progress [video_id, updates, now]
    snapshot,       \* per process: what load_progress returned to the call
    overlapped,     \* two load-modify-save sections have overlapped
    completed,      \* the calls whose save has finished, in save order
    appended,       \* every audit entry appended so far, in append order
    dirs,           \* per video: data/slides/<video_id>/ [exists, files, credited]
    metadata,       \* per video: data/slides/<video_id>/metadata.json
    attrs,          \* per slide file: what the image and its OCR text are like
    extractor,      \* per video: the SlideExtractor and how far process() is
    batch,          \* extract_slides.main --all: submitted, results, errors
    finalizer,      \* finalize_curation.py and the scripts it has launched
    last            \* the last handler that ran, with its arguments and result

storeVars == <<progressFile, clock, calls, appended>>
procVars == <<pc, local, req, snapshot, overlapped, completed, extractor,
              batch, finalizer>>
dirVars == <<dirs, metadata, attrs>>
vars == <<progressFile, clock, calls, appended, pc, local, req, snapshot,
          overlapped, completed, dirs, metadata, attrs, extractor, batch,
          finalizer, last>>

(***************************************************************************)
(* Bounds of the model.                                                    *)
(***************************************************************************)
MaxCalls == 3
MaxSlides == 3

Videos == {"v1", "v2"}
Procs == {1, 2}
Slides == 1..MaxSlides      \* the slide_<timestamp>_<hash>.png file names

(***************************************************************************)
(* curation_progress.py                                                    *)
(***************************************************************************)
AUDIT_LOG_MAX == 1000

Statuses == {"pending", "reviewed", "credits_added", "completed"}

EmptyMap == [k \in {} |-> FALSE]

\* d[k] = v on a dict, adding the key when it is missing
SetKey(d, k, v) == [x \in DOMAIN d \cup {k} |-> IF x = k THEN v ELSE d[x]]

\* bool(d.get(k)) for a key that holds a boolean when present
Truthy(d, k) == k \in DOMAIN d /\ d[k] = TRUE

\* the record update_video_progress creates for an unknown video, which is
\* also the default get_video_progress returns
DefaultRecord ==
    [status |-> "pending", reviewed |-> FALSE, credits_added |-> FALSE,
     duplicates_fixed |-> FALSE, metadata_synced |-> FALSE]

\* {} as load_progress returns it: no 'videos', no 'audit_log'
EmptyProgress == [videos |-> EmptyMap, audit_log |-> <<>>]

NoFile == [state |-> "absent", data |-> EmptyProgress]

\* load_progress: the parsed file, or {} when the file is missing or when
\* reading or parsing it raises
LoadProgress(f) == IF f.state = "ok" THEN f.data ELSE EmptyProgress

\* whether load_progress went through its except branch
LoadFails(f) == f.state = "partial"

\* get_video_progress
GetVideoProgress(f, video_id) ==
    LET videos == LoadProgress(f).videos
    IN IF video_id \in DOMAIN videos THEN videos[video_id] ELSE DefaultRecord

\* DeriveStatus with the metadata_synced test left out of the first branch
DeriveStatusNoSync(r) ==
    IF Truthy(r, "credits_added") /\ Truthy(r, "reviewed") THEN "completed"
    ELSE IF Truthy(r, "credits_added") THEN "credits_added"
    ELSE IF Truthy(r, "reviewed") THEN "reviewed"
    ELSE "pending"

\* the if/elif chain that derives status from the flags
\* DeriveStatus that looks at reviewed before credits_added
DeriveStatusReviewedFirst(r) ==
    IF Truthy(r, "metadata_synced") /\ Truthy(r, "credits_added")
       /\ Truthy(r, "reviewed")
    THEN "completed"
    ELSE IF Truthy(r, "reviewed") THEN "reviewed"
    ELSE IF Truthy(r, "credits_added") THEN "credits_added"
    ELSE "pending"

DeriveStatus(r) ==
    IF Truthy(r, "metadata_synced") /\ Truthy(r, "credits_added")
       /\ Truthy(r, "reviewed")
    THEN "completed"
    ELSE IF Truthy(r, "credits_added") THEN "credits_added"
    ELSE IF Truthy(r, "reviewed") THEN "reviewed"
    ELSE "pending"

\* for key, value in updates.items(): record[key] = value
ApplyUpdates(r, updates) ==
    [k \in DOMAIN r \cup DOMAIN updates |->
        IF k \in DOMAIN updates THEN updates[k] ELSE r[k]]

\* log[-n:]
LastN(log, n) ==
    IF Len(log) <= n THEN log ELSE SubSeq(log, Len(log) - n + 1, Len(log))

\* AuditEntry that never reads the action out of the updates
AuditEntryNoAction(video_id, updates, now) ==
    [timestamp |-> now, video_id |-> video_id, action |-> "updated",
     updates |-> updates]

\* the audit entry of one call
AuditEntry(video_id, updates, now) ==
    [timestamp |-> now, video_id |-> video_id,
     action |-> IF "action" \in DOMAIN updates THEN updates["action"]
                ELSE "updated",
     updates |-> updates]

\* AppendAudit that cuts the log with [:1000], keeping the oldest entries
AppendAuditKeepOldest(log, entry) ==
    LET log1 == Append(log, entry)
    IN IF Len(log1) > AUDIT_LOG_MAX THEN SubSeq(log1, 1, AUDIT_LOG_MAX)
       ELSE log1

\* append the entry, then keep only the last AUDIT_LOG_MAX entries
AppendAudit(log, entry) ==
    LET log1 == Append(log, entry)
    IN IF Len(log1) > AUDIT_LOG_MAX THEN LastN(log1, AUDIT_LOG_MAX) ELSE log1

\* the record of video_id after the update: fields, last_updated, status
UpdatedRecord(progress, video_id, updates, now) ==
    LET r0 == IF video_id \in DOMAIN progress.videos
              THEN progress.videos[video_id] ELSE DefaultRecord
        r1 == ApplyUpdates(r0, updates)
        r2 == SetKey(r1, "last_updated", now)
    IN SetKey(r2, "status", DeriveStatus(r2))

\* UpdateVideoProgress that rebuilds 'videos' with the updated video alone
UpdateVideoProgressClobber(progress, video_id, updates, now) ==
    [videos |-> SetKey(EmptyMap, video_id,
                       UpdatedRecord(progress, video_id, updates, now)),
     audit_log |-> AppendAudit(progress.audit_log,
                               AuditEntry(video_id, updates, now))]

\* update_video_progress between its load_progress and its save_progress:
\* the dict that is saved, from the dict that was loaded
UpdateVideoProgress(progress, video_id, updates, now) ==
    [videos |-> SetKey(progress.videos, video_id,
                       UpdatedRecord(progress, video_id, updates, now)),
     audit_log |-> AppendAudit(progress.audit_log,
                               AuditEntry(video_id, updates, now))]

\* save_progress once the file is closed
Saved(progress) == [state |-> "ok", data |-> progress]

\* the file after update_video_progress has run to completion on file f
Stored(f, video_id, updates, now) ==
    Saved(UpdateVideoProgress(LoadProgress(f), video_id, updates, now))

\* save_progress after open(PROGRESS_FILE, 'w') and before json.dump has
\* written and the file is closed: the file exists and does not parse
Truncated == [state |-> "partial", data |-> EmptyProgress]

\* mark_reviewed
ReviewedUpdates(slides_kept, slides_removed, now) ==
    [reviewed |-> TRUE, reviewed_date |-> now, slides_kept |-> slides_kept,
     slides_removed |-> slides_removed, action |-> "reviewed"]

\* mark_credits_added
CreditsUpdates(with_text, now) ==
    IF with_text
    THEN [credits_added |-> TRUE, credits_date |-> now,
          action |-> "credits_added", credit_text |-> "credit"]
    ELSE [credits_added |-> TRUE, credits_date |-> now,
          action |-> "credits_added"]

\* mark_duplicates_fixed
DuplicatesFixedUpdates(fixed_count, now) ==
    [duplicates_fixed |-> TRUE, duplicates_fixed_date |-> now,
     duplicates_fixed_count |-> fixed_count, action |-> "duplicates_fixed"]

\* mark_metadata_synced
MetadataSyncedUpdates(now) ==
    [metadata_synced |-> TRUE, metadata_synced_date |-> now,
     action |-> "metadata_synced"]

(***************************************************************************)
(* A video's slide directory and its metadata.json.                        *)
(***************************************************************************)
NoReviewStats ==
    [present |-> FALSE, total_reviewed |-> 0, approved_removal |-> 0,
     kept_after_review |-> 0]

\* video: video.mp4 is there; frames: the frames/ directory is there
NoDir ==
    [exists |-> FALSE, files |-> {}, credited |-> {}, video |-> FALSE,
     frames |-> FALSE]

NoMetadata ==
    [exists |-> FALSE, slides |-> <<>>,
     stats |-> [slides_detected |-> 0, unique_slides |-> 0, duplicates |-> 0],
     human_reviewed |-> FALSE, review_stats |-> NoReviewStats,
     credit_overlay |-> FALSE, metadata_synced |-> FALSE,
     cleanup_applied |-> FALSE]

\* DetectVideoState that also takes a credit bar in the sampled image as a
\* sign that the metadata is in sync
DetectVideoStateFromImages(d, m, first) ==
    IF ~d.exists THEN [error |-> TRUE]
    ELSE [error |-> FALSE,
          has_metadata |-> m.exists,
          slide_count |-> IF m.exists THEN Len(m.slides) ELSE 0,
          has_credits_in_metadata |-> m.exists /\ m.credit_overlay,
          has_been_reviewed |->
              m.exists /\ (m.human_reviewed \/ m.review_stats.present),
          metadata_synced |->
              m.exists /\ (m.metadata_synced
                            \/ (m.human_reviewed
                                /\ (m.credit_overlay
                                    \/ (d.files # {} /\ first \in d.credited)))),
          has_credits_in_images |-> d.files # {} /\ first \in d.credited]

\* detect_video_state; first is slide_files[0] of the glob, whose bottom row
\* is dark when the file carries a credit bar
DetectVideoState(d, m, first) ==
    IF ~d.exists THEN [error |-> TRUE]
    ELSE [error |-> FALSE,
          has_metadata |-> m.exists,
          slide_count |-> IF m.exists THEN Len(m.slides) ELSE 0,
          has_credits_in_metadata |-> m.exists /\ m.credit_overlay,
          has_been_reviewed |->
              m.exists /\ (m.human_reviewed \/ m.review_stats.present),
          metadata_synced |->
              m.exists /\ (m.metadata_synced
                            \/ (m.human_reviewed /\ m.credit_overlay)),
          has_credits_in_images |-> d.files # {} /\ first \in d.credited]

\* the files slide_files[0] can be: the glob's order is the file system's
FirstFiles(d) == IF d.files = {} THEN {0} ELSE d.files

\* DetectedUpdates that copies each detected value into its flag, false too
DetectedUpdatesMirror(det, current, now) ==
    [reviewed |-> det.has_been_reviewed,
     credits_added |-> det.has_credits_in_metadata \/ det.has_credits_in_images,
     metadata_synced |-> det.metadata_synced]

\* DetectedUpdates that stamps the date of every flag it sets, whether the
\* record has one or not
DetectedUpdatesRedated(det, current, now) ==
    LET u1 == IF det.has_been_reviewed
              THEN [reviewed |-> TRUE, reviewed_date |-> now]
              ELSE EmptyMap
        u2 == IF det.has_credits_in_metadata \/ det.has_credits_in_images
              THEN [credits_added |-> TRUE, credits_date |-> now]
              ELSE EmptyMap
        u3 == IF det.metadata_synced
              THEN [metadata_synced |-> TRUE, metadata_synced_date |-> now]
              ELSE EmptyMap
        u4 == IF det.slide_count # 0
                 /\ ~("slides_kept" \in DOMAIN current
                      /\ current["slides_kept"] # 0)
              THEN [slides_kept |-> det.slide_count]
              ELSE EmptyMap
    IN ApplyUpdates(ApplyUpdates(ApplyUpdates(u1, u2), u3), u4)

\* the updates sync_video_progress_from_state collects, before 'action'
DetectedUpdates(det, current, now) ==
    LET u1 == IF det.has_been_reviewed
              THEN IF "reviewed_date" \notin DOMAIN current
                   THEN [reviewed |-> TRUE, reviewed_date |-> now]
                   ELSE [reviewed |-> TRUE]
              ELSE EmptyMap
        u2 == IF det.has_credits_in_metadata \/ det.has_credits_in_images
              THEN IF "credits_date" \notin DOMAIN current
                   THEN [credits_added |-> TRUE, credits_date |-> now]
                   ELSE [credits_added |-> TRUE]
              ELSE EmptyMap
        u3 == IF det.metadata_synced
              THEN IF "metadata_synced_date" \notin DOMAIN current
                   THEN [metadata_synced |-> TRUE, metadata_synced_date |-> now]
                   ELSE [metadata_synced |-> TRUE]
              ELSE EmptyMap
        u4 == IF det.slide_count # 0
                 /\ ~("slides_kept" \in DOMAIN current
                      /\ current["slides_kept"] # 0)
              THEN [slides_kept |-> det.slide_count]
              ELSE EmptyMap
    IN ApplyUpdates(ApplyUpdates(ApplyUpdates(u1, u2), u3), u4)

\* sync_video_progress_from_state: the updates it hands to
\* update_video_progress, or the empty dict when it makes no call
SyncUpdates(det, current, now) ==
    LET updates == DetectedUpdates(det, current, now)
    IN IF DOMAIN updates = {} THEN updates
       ELSE SetKey(updates, "action", "synced_from_state")

(***************************************************************************)
(* extract_slides.py: the quality tests and the Deduplicator.  A slide     *)
(* image is described by what the tests measure on it: the Laplacian       *)
(* variance, the percentage of dark pixels, the number of words and of     *)
(* filler phrases in its OCR text, and its perceptual hash; readable says  *)
(* whether the file opens as an image at all.                              *)
(***************************************************************************)
\* SlideConfig as review_slides.main builds it from the option defaults;
\* scene_threshold in hundredths (0.15)
SlideConfig ==
    [filter_blurry |-> TRUE, blur_threshold |-> 100, min_ocr_words |-> 10,
     filter_filler_text |-> TRUE, remove_duplicates |-> TRUE,
     phash_threshold |-> 10, scene_threshold |-> 15, clip_threshold |-> 55,
     text_density_min |-> 15, text_density_max |-> 300]

\* _is_blurry: True when cv2.imread gives None, else variance < threshold
IsBlurry(a, threshold) == ~a.readable \/ a.variance < threshold

\* _is_mostly_black: True when cv2.imread gives None, else dark_ratio > 0.85
IsMostlyBlack(a) == ~a.readable \/ a.dark > 85

\* _is_filler_text
IsFillerText(a) ==
    \/ a.words = 0
    \/ a.words < 5
    \/ a.fillers > 0 /\ a.words < 25
    \/ a.fillers >= 2 /\ a.words < 30

\* FilterVerdict without the mostly-black test
FilterVerdictNoBlack(a, config) ==
    IF config.filter_blurry /\ IsBlurry(a, config.blur_threshold) THEN "blurry"
    ELSE IF a.words < config.min_ocr_words THEN "low_text"
    ELSE IF config.filter_filler_text /\ IsFillerText(a) THEN "filler_text"
    ELSE "none"

\* the body of the loop of filter_quality: the counter it increments before
\* 'continue', or "none" when it reaches filtered.append(slide)
FilterVerdict(a, config) ==
    IF config.filter_blurry /\ IsBlurry(a, config.blur_threshold) THEN "blurry"
    ELSE IF IsMostlyBlack(a) THEN "mostly_black"
    ELSE IF a.words < config.min_ocr_words THEN "low_text"
    ELSE IF config.filter_filler_text /\ IsFillerText(a) THEN "filler_text"
    ELSE "none"

NoneRemoved ==
    [low_text |-> 0, filler_text |-> 0, mostly_black |-> 0, blurry |-> 0]

\* the loop of filter_quality over the slides still to visit
RECURSIVE FilterQualityFrom(_, _, _, _, _)
FilterQualityFrom(slides, filtered, removed_reasons, at, config) ==
    IF slides = <<>>
    THEN [filtered |-> filtered, removed_reasons |-> removed_reasons]
    ELSE LET verdict == FilterVerdict(at[Head(slides)], config)
         IN IF verdict = "none"
            THEN FilterQualityFrom(Tail(slides), Append(filtered, Head(slides)),
                                   removed_reasons, at, config)
            ELSE FilterQualityFrom(Tail(slides), filtered,
                                   [removed_reasons EXCEPT ![verdict] = @ + 1],
                                   at, config)

\* SlideExtractor.filter_quality: the list it returns and its tally
FilterQuality(slides, at, config) ==
    FilterQualityFrom(slides, <<>>, NoneRemoved, at, config)

\* GetRemovalReason that tests for filler text before it counts the words
GetRemovalReasonFillerFirst(a, config) ==
    IF config.filter_blurry /\ IsBlurry(a, config.blur_threshold) THEN "blurry"
    ELSE IF IsMostlyBlack(a) THEN "mostly_black"
    ELSE IF config.filter_filler_text /\ IsFillerText(a) THEN "filler_text"
    ELSE IF a.words < config.min_ocr_words THEN "low_text"
    ELSE "none"

\* get_removal_reason, with "none" for None and "low_text" for the label
\* "low_text (<n> words < <min_ocr_words>)"
GetRemovalReason(a, config) ==
    IF config.filter_blurry /\ IsBlurry(a, config.blur_threshold) THEN "blurry"
    ELSE IF IsMostlyBlack(a) THEN "mostly_black"
    ELSE IF a.words < config.min_ocr_words THEN "low_text"
    ELSE IF config.filter_filler_text /\ IsFillerText(a) THEN "filler_text"
    ELSE "none"

\* phash - existing_phash: the number of bits in which two hashes differ
RECURSIVE Distance(_, _)
Distance(h1, h2) ==
    IF h1 = 0 /\ h2 = 0 THEN 0
    ELSE (IF h1 % 2 # h2 % 2 THEN 1 ELSE 0) + Distance(h1 \div 2, h2 \div 2)

\* Matches that tests distance < threshold
MatchesStrict(s, result, i, at, config) ==
    /\ at[result[i]].readable
    /\ Distance(at[s].phash, at[result[i]].phash) < config.phash_threshold

\* whether slide i of result is in hash_map and within the threshold of s;
\* hash_map holds the slides of result whose hash could be computed
Matches(s, result, i, at, config) ==
    /\ at[result[i]].readable
    /\ Distance(at[s].phash, at[result[i]].phash) <= config.phash_threshold

\* whether the hash of slide s is within the threshold of a slide in hash_map
IsDuplicate(s, result, at, config) ==
    \E i \in 1..Len(result) : Matches(s, result, i, at, config)

\* DeduplicateFrom that puts each kept slide at the front of result
RECURSIVE DeduplicateFromPrepend(_, _, _, _)
DeduplicateFromPrepend(slides, result, at, config) ==
    IF slides = <<>> THEN result
    ELSE DeduplicateFromPrepend(Tail(slides),
                         IF at[Head(slides)].readable
                            /\ IsDuplicate(Head(slides), result, at, config)
                         THEN result ELSE <<Head(slides)>> \o result,
                         at, config)

\* the loop of deduplicate over the slides still to visit; a slide within
\* the threshold of a slide in hash_map is left out of result, in remove-mode
\* and in mark-mode alike; a slide whose hash raises is appended
RECURSIVE DeduplicateFrom(_, _, _, _)
DeduplicateFrom(slides, result, at, config) ==
    IF slides = <<>> THEN result
    ELSE DeduplicateFrom(Tail(slides),
                         IF at[Head(slides)].readable
                            /\ IsDuplicate(Head(slides), result, at, config)
                         THEN result ELSE Append(result, Head(slides)),
                         at, config)

\* Deduplicate that compares a slide with every earlier slide of the input,
\* the dropped ones too
DeduplicateChained(slides, at, config) ==
    SelectSeq(slides,
        LAMBDA s : ~(at[s].readable
                     /\ \E i \in 1..Len(slides) :
                           /\ \A k \in 1..i : slides[k] # s
                           /\ at[slides[i]].readable
                           /\ Distance(at[s].phash, at[slides[i]].phash)
                                 <= config.phash_threshold))

\* SlideExtractor.deduplicate
Deduplicate(slides, at, config) == DeduplicateFrom(slides, <<>>, at, config)

\* FirstMatch that takes the closest slide of hash_map, not the first
ClosestMatch(s, result, at, config) ==
    result[CHOOSE i \in 1..Len(result) :
              /\ Matches(s, result, i, at, config)
              /\ \A j \in 1..Len(result) :
                    Matches(s, result, j, at, config) =>
                       \/ Distance(at[s].phash, at[result[i]].phash)
                            < Distance(at[s].phash, at[result[j]].phash)
                       \/ /\ Distance(at[s].phash, at[result[i]].phash)
                               = Distance(at[s].phash, at[result[j]].phash)
                          /\ i <= j]

\* the slide the inner loop breaks at: the first slide of hash_map, in
\* insertion order, that is within the threshold of s
FirstMatch(s, result, at, config) ==
    result[CHOOSE i \in 1..Len(result) :
              /\ Matches(s, result, i, at, config)
              /\ \A j \in 1..(i - 1) : ~Matches(s, result, j, at, config)]

\* is_duplicate_of of every slide after the loop of deduplicate over the
\* slides still to visit (0 for None): mark-mode sets it on a duplicate
RECURSIVE MarksFrom(_, _, _, _, _)
MarksFrom(slides, result, marks, at, config) ==
    IF slides = <<>> THEN marks
    ELSE LET s == Head(slides)
             dup == at[s].readable /\ IsDuplicate(s, result, at, config)
         IN MarksFrom(Tail(slides),
                      IF dup THEN result ELSE Append(result, s),
                      IF dup /\ ~config.remove_duplicates
                      THEN [marks EXCEPT ![s] = FirstMatch(s, result, at, config)]
                      ELSE marks,
                      at, config)

\* is_duplicate_of of every slide after deduplicate(slides)
DuplicateMarks(slides, marks, at, config) ==
    MarksFrom(slides, <<>>, marks, at, config)

\* the values of a list
Range(seq) == {seq[i] : i \in 1..Len(seq)}

\* how many times x is in a list
Count(seq, x) == Cardinality({i \in 1..Len(seq) : seq[i] = x})

(***************************************************************************)
(* sync_slide_metadata.py                                                  *)
(***************************************************************************)
\* SyncVideoMetadataOn that keeps the number of dropped entries in
\* stats.duplicates
SyncVideoMetadataOnCountsDropped(d, m, dry_run) ==
    LET actual_files == d.files
        metadata_files == Range(m.slides)
        missing_files == metadata_files \ actual_files
        orphaned_files == actual_files \ metadata_files
    IN IF ~m.exists
       THEN [metadata |-> m, marked |-> FALSE, ret |-> [error |-> TRUE]]
       ELSE IF missing_files = {} /\ orphaned_files = {}
       THEN [metadata |-> m, marked |-> ~dry_run,
             ret |-> [synced |-> TRUE, removed |-> 0, added |-> 0,
                      current_count |-> Cardinality(actual_files)]]
       ELSE [metadata |->
                IF dry_run THEN m
                ELSE [m EXCEPT
                        !.slides = SelectSeq(@, LAMBDA f : f \in actual_files),
                        !.stats = [slides_detected |-> Cardinality(actual_files),
                                   unique_slides |-> Cardinality(actual_files),
                                   duplicates |-> Cardinality(missing_files)],
                        !.metadata_synced = TRUE],
             marked |-> ~dry_run,
             ret |-> [synced |-> ~dry_run,
                      removed |-> Cardinality(missing_files), added |-> 0,
                      orphaned |-> Cardinality(orphaned_files),
                      current_count |-> Cardinality(actual_files)]]

\* sync_video_metadata on directory d with metadata m: the metadata it
\* leaves, whether it calls mark_metadata_synced, and the dict it returns
SyncVideoMetadataOn(d, m, dry_run) ==
    LET actual_files == d.files
        metadata_files == Range(m.slides)
        missing_files == metadata_files \ actual_files
        orphaned_files == actual_files \ metadata_files
    IN IF ~m.exists
       THEN [metadata |-> m, marked |-> FALSE, ret |-> [error |-> TRUE]]
       ELSE IF missing_files = {} /\ orphaned_files = {}
       THEN [metadata |-> m, marked |-> ~dry_run,
             ret |-> [synced |-> TRUE, removed |-> 0, added |-> 0,
                      current_count |-> Cardinality(actual_files)]]
       ELSE [metadata |->
                IF dry_run THEN m
                ELSE [m EXCEPT
                        !.slides = SelectSeq(@, LAMBDA f : f \in actual_files),
                        !.stats = [slides_detected |-> Cardinality(actual_files),
                                   unique_slides |-> Cardinality(actual_files),
                                   duplicates |-> 0],
                        !.metadata_synced = TRUE],
             marked |-> ~dry_run,
             ret |-> [synced |-> ~dry_run,
                      removed |-> Cardinality(missing_files), added |-> 0,
                      orphaned |-> Cardinality(orphaned_files),
                      current_count |-> Cardinality(actual_files)]]

(***************************************************************************)
(* cleanup_slides.py, cleanup_black_frames.py, fix_transition_duplicates.py *)
(* and fix_duplicate_credits.py.  Each operator gives, for directory d,    *)
(* metadata m and images at, what the function leaves behind and the dict  *)
(* it returns.                                                             *)
(***************************************************************************)
\* metadata.json with its slides list cut down to keep, as the black-frame
\* and transition scripts rewrite it
WithoutSlides(m, removed) ==
    LET slides == SelectSeq(m.slides, LAMBDA f : f \notin removed)
    IN [m EXCEPT !.slides = slides,
                 !.stats.slides_detected = Len(slides),
                 !.stats.unique_slides = Len(slides)]

WithoutFiles(d, removed) ==
    [d EXCEPT !.files = @ \ removed, !.credited = @ \ removed]

\* cleanup_video that unlinks in a dry run as well
CleanupSlidesOnUnguarded(d, m, at, config, dry_run) ==
    LET slides == SelectSeq(m.slides, LAMBDA f : f \in d.files)
        kept == Deduplicate(FilterQuality(slides, at, config).filtered, at, config)
        removed_files == d.files \ Range(kept)
    IN IF ~m.exists \/ slides = <<>>
       THEN [dir |-> d, metadata |-> m,
             ret |-> [error |-> TRUE, removed |-> 0, kept |-> 0]]
       ELSE [dir |-> WithoutFiles(d, removed_files), metadata |-> m,
             ret |-> [error |-> FALSE, initial |-> Len(slides),
                      removed |-> Len(slides) - Len(kept), kept |-> Len(kept),
                      removed_files |-> removed_files, dry_run |-> dry_run]]

\* cleanup_slides.cleanup_video
CleanupSlidesOn(d, m, at, config, dry_run) ==
    LET slides == SelectSeq(m.slides, LAMBDA f : f \in d.files)
        kept == Deduplicate(FilterQuality(slides, at, config).filtered, at, config)
        total_removed == Len(slides) - Len(kept)
        removed_files == d.files \ Range(kept)
    IN IF ~m.exists \/ slides = <<>>
       THEN [dir |-> d, metadata |-> m,
             ret |-> [error |-> TRUE, removed |-> 0, kept |-> 0]]
       ELSE [dir |-> IF dry_run THEN d ELSE WithoutFiles(d, removed_files),
             metadata |->
                IF ~dry_run /\ total_removed > 0
                THEN [m EXCEPT
                        !.slides = kept,
                        !.stats = [slides_detected |-> Len(kept),
                                   unique_slides |-> Len(kept),
                                   duplicates |-> 0],
                        !.cleanup_applied = TRUE]
                ELSE m,
             ret |-> [error |-> FALSE, initial |-> Len(slides),
                      removed |-> total_removed, kept |-> Len(kept),
                      removed_files |-> removed_files, dry_run |-> dry_run]]

\* cleanup_black_frames.cleanup_video: the slide_0m00s_* files that are
\* mostly black; names are the file names a dry run prints
CleanupBlackFramesOn(d, m, at, dry_run) ==
    LET slide_files == {f \in d.files : at[f].timestamp = 0}
        removed == {f \in slide_files : IsMostlyBlack(at[f])}
    IN IF ~d.exists \/ ~m.exists
       THEN [dir |-> d, metadata |-> m,
             ret |-> [error |-> TRUE]]
       ELSE IF removed = {}
       THEN [dir |-> d, metadata |-> m,
             ret |-> [error |-> FALSE, removed |-> 0,
                      checked |-> Cardinality(slide_files)]]
       ELSE IF dry_run
       THEN [dir |-> d, metadata |-> m,
             ret |-> [error |-> FALSE, dry_run |-> TRUE,
                      would_remove |-> Cardinality(removed),
                      checked |-> Cardinality(slide_files), names |-> removed]]
       ELSE [dir |-> WithoutFiles(d, removed),
             metadata |-> WithoutSlides(m, removed),
             ret |-> [error |-> FALSE, removed |-> Cardinality(removed),
                      checked |-> Cardinality(slide_files),
                      kept |-> Cardinality(slide_files \ removed)]]

TRANSITION_THRESHOLD == 5

\* find_transition_duplicates: the pairs of neighbours in the list of slide
\* files sorted by the time in their names that are less than threshold
\* seconds apart; of several files with one time the glob lists the higher
\* one last
FindTransitionDuplicates(d, at, threshold) ==
    LET times == {at[f].timestamp : f \in d.files}
        LastAt(t) == CHOOSE f \in d.files :
                        /\ at[f].timestamp = t
                        /\ \A g \in d.files : at[g].timestamp = t => g <= f
        FirstAt(t) == CHOOSE f \in d.files :
                        /\ at[f].timestamp = t
                        /\ \A g \in d.files : at[g].timestamp = t => f <= g
    IN {[earlier |-> LastAt(t1), later |-> FirstAt(t2)] :
           <<t1, t2>> \in {p \in times \X times :
                             /\ p[1] < p[2] /\ p[2] - p[1] < threshold
                             /\ \A t \in times : ~(p[1] < t /\ t < p[2])}}

\* fix_transition_duplicates.process_video; names are the earlier slides of
\* the pairs it prints
FixTransitionDuplicatesOn(d, m, at, dry_run) ==
    LET duplicates == FindTransitionDuplicates(d, at, TRANSITION_THRESHOLD)
        removed == {p.earlier : p \in duplicates}
    IN IF ~d.exists
       THEN [dir |-> d, metadata |-> m,
             ret |-> [error |-> TRUE]]
       ELSE IF duplicates = {}
       THEN [dir |-> d, metadata |-> m,
             ret |-> [error |-> FALSE, removed |-> 0, pairs_found |-> 0]]
       ELSE IF dry_run
       THEN [dir |-> d, metadata |-> m,
             ret |-> [error |-> FALSE, dry_run |-> TRUE,
                      would_remove |-> Cardinality(duplicates),
                      pairs_found |-> Cardinality(duplicates),
                      names |-> removed]]
       ELSE [dir |-> WithoutFiles(d, removed),
             metadata |-> IF m.exists THEN WithoutSlides(m, removed) ELSE m,
             ret |-> [error |-> FALSE, removed |-> Cardinality(removed),
                      pairs_found |-> Cardinality(duplicates)]]

\* the files remove_duplicate_credits crops: those with more than one credit
\* bar at the bottom
DuplicateCredits(d, at) == {f \in d.files : at[f].readable /\ at[f].bars >= 2}

\* fix_duplicate_credits.process_video: the images it leaves, whether it
\* calls mark_duplicates_fixed, and the dict it returns
FixDuplicateCreditsOn(d, at, dry_run) ==
    LET fixed == DuplicateCredits(d, at)
        errors == {f \in d.files : ~at[f].readable}
    IN IF ~d.exists \/ d.files = {}
       THEN [attrs |-> at, marked |-> FALSE,
             ret |-> [error |-> TRUE]]
       ELSE IF dry_run
       THEN [attrs |-> at, marked |-> FALSE,
             ret |-> [error |-> FALSE, dry_run |-> TRUE,
                      count |-> Cardinality(d.files)]]
       ELSE [attrs |-> [f \in DOMAIN at |->
                          IF f \in fixed THEN [at[f] EXCEPT !.bars = 1]
                          ELSE at[f]],
             marked |-> TRUE,
             ret |-> [error |-> FALSE, fixed |-> Cardinality(fixed),
                      errors |-> Cardinality(errors)]]

(***************************************************************************)
(* review_slides.py                                                        *)
(***************************************************************************)
\* all_slides: the slides of the metadata whose file exists
LoadedSlides(d, m) == SelectSeq(m.slides, LAMBDA f : f \in d.files)

\* slides_to_keep of the default mode: the slides with no removal reason
PassedSlides(all_slides, at, config) ==
    SelectSeq(all_slides, LAMBDA s : GetRemovalReason(at[s], config) = "none")

\* slides_to_review of the default mode after its first loop
FlaggedSlides(all_slides, at, config) ==
    LET flagged == SelectSeq(all_slides,
                     LAMBDA s : GetRemovalReason(at[s], config) # "none")
    IN [i \in 1..Len(flagged) |->
          [slide |-> flagged[i],
           reason |-> GetRemovalReason(at[flagged[i]], config)]]

\* slides_to_review of review-all mode
EverySlide(all_slides, at, config) ==
    [i \in 1..Len(all_slides) |->
       [slide |-> all_slides[i],
        reason |-> IF GetRemovalReason(at[all_slides[i]], config) = "none"
                   THEN "manual_review"
                   ELSE GetRemovalReason(at[all_slides[i]], config)]]

\* the "Check duplicates separately" loop over the slides still to visit:
\* a slide whose hash is not the hash of a slide deduplicate kept, and whose
\* path is not yet in the review list, is appended as a "duplicate"
RECURSIVE AddDuplicates(_, _, _, _)
AddDuplicates(slides, kept_hashes, review, at) ==
    IF slides = <<>> THEN review
    ELSE LET s == Head(slides)
         IN AddDuplicates(Tail(slides), kept_hashes,
               IF at[s].phash \notin kept_hashes
                  /\ ~\E i \in 1..Len(review) : review[i].slide = s
               THEN Append(review, [slide |-> s, reason |-> "duplicate"])
               ELSE review,
               at)

\* the loop that keeps the first review entry of each path, replacing a
\* "manual_review" reason by a later specific one
RECURSIVE DedupReview(_, _)
DedupReview(review, deduplicated_review) ==
    IF review = <<>> THEN deduplicated_review
    ELSE LET r == Head(review)
             seen == \E i \in 1..Len(deduplicated_review) :
                        deduplicated_review[i].slide = r.slide
         IN DedupReview(Tail(review),
               IF ~seen THEN Append(deduplicated_review, r)
               ELSE [i \in 1..Len(deduplicated_review) |->
                       IF deduplicated_review[i].slide = r.slide
                          /\ r.reason # "manual_review"
                          /\ deduplicated_review[i].reason = "manual_review"
                       THEN [slide |-> r.slide, reason |-> r.reason]
                       ELSE deduplicated_review[i]])

\* slides_to_review as the reviewer gets it
SlidesToReview(all_slides, at, config, review_all) ==
    DedupReview(
        IF review_all THEN EverySlide(all_slides, at, config)
        ELSE IF config.remove_duplicates
        THEN LET deduplicated == Deduplicate(all_slides, at, config)
                 kept_hashes == {at[s].phash : s \in Range(deduplicated)}
             IN AddDuplicates(all_slides, kept_hashes,
                              FlaggedSlides(all_slides, at, config), at)
        ELSE FlaggedSlides(all_slides, at, config),
        <<>>)

\* slides_to_keep
SlidesToKeep(all_slides, at, config, review_all) ==
    IF review_all THEN <<>> ELSE PassedSlides(all_slides, at, config)

\* the slides of a list of review entries
SlidesOf(review) == [i \in 1..Len(review) |-> review[i].slide]

\* metadata.json rewritten with slides_to_keep alone
ReviewedMetadataPassedOnly(m, final_slides, reviewed, approved, rejected) ==
    [m EXCEPT
       !.slides = SubSeq(final_slides, 1, Len(final_slides) - rejected),
       !.stats = [slides_detected |-> Len(final_slides),
                  unique_slides |-> Len(final_slides), duplicates |-> 0],
       !.human_reviewed = TRUE,
       !.review_stats = [present |-> TRUE, total_reviewed |-> reviewed,
                         approved_removal |-> approved,
                         kept_after_review |-> rejected]]

\* metadata.json as review_slides rewrites it
ReviewedMetadata(m, final_slides, reviewed, approved, rejected) ==
    [m EXCEPT
       !.slides = final_slides,
       !.stats = [slides_detected |-> Len(final_slides),
                  unique_slides |-> Len(final_slides), duplicates |-> 0],
       !.human_reviewed = TRUE,
       !.review_stats = [present |-> TRUE, total_reviewed |-> reviewed,
                         approved_removal |-> approved,
                         kept_after_review |-> rejected]]

(***************************************************************************)
(* The progress store, one call at a time: each action is a whole handler. *)
(***************************************************************************)
Idle == \A p \in Procs : pc[p] = "idle"

\* update_video_progress run to completion: load, modify, save
Update(video_id, updates) ==
    LET now == clock + 1
        entry == AuditEntry(video_id, updates, now)
    IN /\ progressFile' = Stored(progressFile, video_id, updates, now)
       /\ appended' = Append(appended, entry)
       /\ clock' = now

Called(name, video_id, updates, result) ==
    /\ calls' = calls + 1
    /\ last' = [op |-> name, video_id |-> video_id, updates |-> updates,
                result |-> result]

MarkReviewed(v, slides_kept, slides_removed) ==
    /\ Idle /\ calls < MaxCalls
    /\ Update(v, ReviewedUpdates(slides_kept, slides_removed, clock + 1))
    /\ Called("mark_reviewed", v,
              ReviewedUpdates(slides_kept, slides_removed, clock + 1), "updated")
    /\ UNCHANGED <<procVars, dirVars>>

MarkCreditsAdded(v, with_text) ==
    /\ Idle /\ calls < MaxCalls
    /\ Update(v, CreditsUpdates(with_text, clock + 1))
    /\ Called("mark_credits_added", v, CreditsUpdates(with_text, clock + 1),
              "updated")
    /\ UNCHANGED <<procVars, dirVars>>

MarkDuplicatesFixed(v, fixed_count) ==
    /\ Idle /\ calls < MaxCalls
    /\ Update(v, DuplicatesFixedUpdates(fixed_count, clock + 1))
    /\ Called("mark_duplicates_fixed", v,
              DuplicatesFixedUpdates(fixed_count, clock + 1), "updated")
    /\ UNCHANGED <<procVars, dirVars>>

MarkMetadataSynced(v) ==
    /\ Idle /\ calls < MaxCalls
    /\ Update(v, MetadataSyncedUpdates(clock + 1))
    /\ Called("mark_metadata_synced", v, MetadataSyncedUpdates(clock + 1),
              "updated")
    /\ UNCHANGED <<procVars, dirVars>>

\* update_video_progress(video_id, status=s): a caller trying to set status
UpdateStatus(v, s) ==
    /\ Idle /\ calls < MaxCalls
    /\ Update(v, [status |-> s])
    /\ Called("update_video_progress", v, [status |-> s], "updated")
    /\ UNCHANGED <<procVars, dirVars>>

SyncVideoProgressFromState(v, first) ==
    LET det == DetectVideoState(dirs[v], metadata[v], first)
        current == GetVideoProgress(progressFile, v)
        updates == SyncUpdates(det, current, clock + 1)
    IN /\ Idle /\ calls < MaxCalls
       /\ first \in FirstFiles(dirs[v])
       /\ IF det.error
          THEN /\ Called("sync_video_progress_from_state", v, EmptyMap, "error")
               /\ UNCHANGED <<progressFile, clock, appended>>
          ELSE IF DOMAIN updates = {}
          THEN /\ Called("sync_video_progress_from_state", v, EmptyMap,
                         "nothing")
               /\ UNCHANGED <<progressFile, clock, appended>>
          ELSE /\ Update(v, updates)
               /\ Called("sync_video_progress_from_state", v, updates,
                         "updated")
       /\ UNCHANGED <<procVars, dirVars>>

\* the metadata.json an earlier stage can have left for a reviewed and/or
\* credited and/or synced video
MetadataOf(slides, reviewed, credited, synced) ==
    [exists |-> TRUE, slides |-> slides,
     stats |-> [slides_detected |-> Len(slides), unique_slides |-> Len(slides),
                duplicates |-> 0],
     human_reviewed |-> reviewed,
     review_stats |-> [present |-> reviewed, total_reviewed |-> Len(slides),
                       approved_removal |-> 0,
                       kept_after_review |-> Len(slides)],
     credit_overlay |-> credited, metadata_synced |-> synced,
     cleanup_applied |-> FALSE]

AllSlides == [i \in Slides |-> i]

\* the images a slide file can hold: sharp or blurry, with a hash that is
\* equal to, near (within 10 bits of) or far from another slide's; timestamp
\* is the time in the file's name, in seconds, bars the number of credit bars
\* at the bottom of the image
Hashes == {0, 1, 2047}

Image(blurry, phash) ==
    [variance |-> IF blurry THEN 50 ELSE 150, dark |-> 10, words |-> 30,
     fillers |-> 0, phash |-> phash, readable |-> TRUE, timestamp |-> 60,
     bars |-> 0, slide_prob |-> 80]

Images == {Image(b, h) : b \in BOOLEAN, h \in Hashes}

SharpImages == [f \in Slides |-> Image(FALSE, 0)]

NoError == [type |-> "none", message |-> ""]

\* no SlideExtractor.process has been called for the video
NoRun ==
    [stage |-> "idle", batch |-> FALSE, keep_video |-> FALSE, attempts |-> 0,
     waited |-> <<>>, slides |-> <<>>, saved |-> 0, writes |-> 0,
     result |-> "none", error |-> NoError, use_clip |-> TRUE,
     clip_model |-> FALSE, clip_processor |-> FALSE, load_attempts |-> 0]

\* main has submitted nothing
NoBatch == [submitted |-> {}, results |-> <<>>, errors |-> <<>>]

\* finalize_curation.py has not been started: no process is running
NoFinalize ==
    [stack |-> <<>>, runs |-> 0,
     result |-> [outcome |-> "none", synced |-> 0, launched |-> <<>>]]

NoCall ==
    [video_id |-> "v1", updates |-> EmptyMap, now |-> 0, load_failed |-> FALSE,
     known |-> {}, saved |-> {}]

InitProcs ==
    /\ pc = [p \in Procs |-> "idle"]
    /\ local = [p \in Procs |-> EmptyProgress]
    /\ req = [p \in Procs |-> NoCall]
    /\ snapshot = [p \in Procs |-> EmptyProgress]
    /\ overlapped = FALSE
    /\ completed = <<>>
    /\ extractor = [v \in Videos |-> NoRun]
    /\ batch = NoBatch
    /\ finalizer = NoFinalize

InitStore ==
    /\ progressFile = NoFile
    /\ clock = 0
    /\ calls = 0
    /\ appended = <<>>
    /\ last = [op |-> "none", video_id |-> "v1", updates |-> EmptyMap,
               result |-> "none"]

\* v1 has slides and a metadata.json in any state earlier stages can leave;
\* v2 has no slides directory
Init ==
    /\ InitStore /\ InitProcs
    /\ attrs = SharpImages
    /\ \E reviewed, credited, synced, bars \in BOOLEAN :
          /\ dirs = [v \in Videos |->
                      IF v = "v1"
                      THEN [NoDir EXCEPT
                              !.exists = TRUE, !.files = Slides,
                              !.credited = IF bars THEN Slides ELSE {}]
                      ELSE NoDir]
          /\ metadata = [v \in Videos |->
                      IF v = "v1"
                      THEN MetadataOf(AllSlides, reviewed, credited, synced)
                      ELSE NoMetadata]

Next ==
    \/ \E v \in Videos : MarkReviewed(v, MaxSlides, 0)
    \/ \E v \in Videos : MarkCreditsAdded(v, TRUE)
    \/ \E v \in Videos : MarkDuplicatesFixed(v, 1)
    \/ \E v \in Videos : MarkMetadataSynced(v)
    \/ \E v \in Videos, s \in {"completed", "pending"} : UpdateStatus(v, s)
    \/ \E v \in Videos, first \in Slides \cup {0} :
          SyncVideoProgressFromState(v, first)

Spec == Init /\ [][Next]_vars

\* the calls that mark a step done, and the reconciliation, with no caller
\* passing a status
NextMarks ==
    \/ \E v \in Videos : MarkReviewed(v, MaxSlides, 0)
    \/ \E v \in Videos : MarkCreditsAdded(v, TRUE)
    \/ \E v \in Videos : MarkDuplicatesFixed(v, 1)
    \/ \E v \in Videos : MarkMetadataSynced(v)
    \/ \E v \in Videos, first \in Slides \cup {0} :
          SyncVideoProgressFromState(v, first)

SpecMarks == Init /\ [][NextMarks]_vars

(***************************************************************************)
(* The same handlers on a store whose audit log is nearly full: the file   *)
(* that n calls of mark_duplicates_fixed("v1", 1) leave behind.            *)
(***************************************************************************)
FilledProgress(n) ==
    [videos |-> SetKey(EmptyMap, "v1",
                       UpdatedRecord(EmptyProgress, "v1",
                                     DuplicatesFixedUpdates(1, n), n)),
     audit_log |-> [i \in 1..n |->
                      AuditEntry("v1", DuplicatesFixedUpdates(1, i), i)]]

InitAudit ==
    /\ InitProcs
    /\ attrs = SharpImages
    /\ \E n \in (AUDIT_LOG_MAX - 1)..AUDIT_LOG_MAX :
          /\ progressFile = Saved(FilledProgress(n))
          /\ appended = FilledProgress(n).audit_log
          /\ clock = n
    /\ calls = 0
    /\ last = [op |-> "none", video_id |-> "v1", updates |-> EmptyMap,
               result |-> "none"]
    /\ dirs = [v \in Videos |->
                IF v = "v1"
                THEN [NoDir EXCEPT !.exists = TRUE, !.files = Slides]
                ELSE NoDir]
    /\ metadata = [v \in Videos |->
                IF v = "v1" THEN MetadataOf(AllSlides, TRUE, FALSE, FALSE)
                ELSE NoMetadata]

\* the four mark_* handlers; every handler appends through the same
\* update_video_progress
NextAudit ==
    \/ \E v \in Videos : MarkReviewed(v, MaxSlides, 0)
    \/ \E v \in Videos : MarkCreditsAdded(v, FALSE)
    \/ \E v \in Videos : MarkDuplicatesFixed(v, 1)
    \/ \E v \in Videos : MarkMetadataSynced(v)

SpecAudit == InitAudit /\ [][NextAudit]_vars

(***************************************************************************)
(* update_video_progress in concurrent processes.  A call is three steps:  *)
(* load_progress and the in-memory update; open(PROGRESS_FILE, 'w'), which *)
(* truncates the file; json.dump and close, which put the new content in   *)
(* place.  A load that falls between the last two finds a file that does   *)
(* not parse and gets {} from load_progress.                               *)
(***************************************************************************)
\* the videos with a record in the file as it was last completely written
LastWhole ==
    IF completed = <<>> THEN {} ELSE completed[Len(completed)].saved

\* load_progress and lines 61-108 of update_video_progress in process p
Load(p, video_id, updates) ==
    LET now == clock + 1
        progress == LoadProgress(progressFile)
        saving == UpdateVideoProgress(progress, video_id, updates, now)
    IN /\ pc[p] = "idle" /\ calls < MaxCalls
       /\ pc' = [pc EXCEPT ![p] = "loaded"]
       /\ snapshot' = [snapshot EXCEPT ![p] = progress]
       /\ local' = [local EXCEPT ![p] = saving]
       /\ req' = [req EXCEPT
                    ![p] = [video_id |-> video_id, updates |-> updates,
                            now |-> now, load_failed |-> LoadFails(progressFile),
                            known |-> LastWhole,
                            saved |-> DOMAIN saving.videos]]
       /\ overlapped' = (overlapped \/ \E q \in Procs \ {p} : pc[q] # "idle")
       /\ appended' = Append(appended, AuditEntry(video_id, updates, now))
       /\ clock' = now
       /\ calls' = calls + 1
       /\ UNCHANGED <<progressFile, completed, extractor, batch, finalizer, dirVars,
                      last>>

\* save_progress: open(PROGRESS_FILE, 'w')
SaveOpen(p) ==
    /\ pc[p] = "loaded"
    /\ pc' = [pc EXCEPT ![p] = "writing"]
    /\ progressFile' = Truncated
    /\ UNCHANGED <<clock, calls, appended, local, req, snapshot, overlapped,
                   completed, extractor, batch, finalizer, dirVars, last>>

\* save_progress: json.dump(data, f) and the close of the with block
SaveClose(p) ==
    /\ pc[p] = "writing"
    /\ pc' = [pc EXCEPT ![p] = "idle"]
    /\ progressFile' = Saved(local[p])
    /\ completed' = Append(completed, req[p])
    /\ local' = [local EXCEPT ![p] = EmptyProgress]
    /\ snapshot' = [snapshot EXCEPT ![p] = EmptyProgress]
    /\ req' = [req EXCEPT ![p] = NoCall]
    /\ UNCHANGED <<clock, calls, appended, overlapped, extractor, batch, finalizer,
                   dirVars, last>>

NextConc ==
    \/ \E p \in Procs, v \in Videos :
          Load(p, v, ReviewedUpdates(MaxSlides, 0, clock + 1))
    \/ \E p \in Procs, v \in Videos :
          Load(p, v, CreditsUpdates(FALSE, clock + 1))
    \/ \E p \in Procs : SaveOpen(p)
    \/ \E p \in Procs : SaveClose(p)

InitConc ==
    /\ InitStore /\ InitProcs
    /\ attrs = SharpImages
    /\ dirs = [v \in Videos |-> NoDir]
    /\ metadata = [v \in Videos |-> NoMetadata]

SpecConc == InitConc /\ [][NextConc]_vars

(***************************************************************************)
(* The handlers that work on a video's slide directory, one at a time:     *)
(* sync_video_metadata, review_slides with the reviewer's answers as its   *)
(* input, add_credit_overlay.process_video, and a slide file deleted by    *)
(* hand.  Image files are readable: no unlink, overlay or hash raises.     *)
(***************************************************************************)
Ran(name, video_id, result) == Called(name, video_id, EmptyMap, result)

\* mark_reviewed followed by the mark_metadata_synced of the final sync
MarkReviewedThenSynced(v, slides_kept, slides_removed) ==
    LET u1 == ReviewedUpdates(slides_kept, slides_removed, clock + 1)
        u2 == MetadataSyncedUpdates(clock + 2)
    IN /\ progressFile' = Stored(Stored(progressFile, v, u1, clock + 1),
                                 v, u2, clock + 2)
       /\ appended' = appended \o <<AuditEntry(v, u1, clock + 1),
                                    AuditEntry(v, u2, clock + 2)>>
       /\ clock' = clock + 2

SyncVideoMetadata(v, dry_run) ==
    LET sync == SyncVideoMetadataOn(dirs[v], metadata[v], dry_run)
    IN /\ Idle /\ calls < MaxCalls
       /\ metadata' = [metadata EXCEPT ![v] = sync.metadata]
       /\ IF sync.marked THEN Update(v, MetadataSyncedUpdates(clock + 1))
          ELSE UNCHANGED <<progressFile, clock, appended>>
       /\ Ran("sync_video_metadata", v,
              [dry_run |-> dry_run, ret |-> sync.ret])
       /\ UNCHANGED <<procVars, dirs, attrs>>

\* keep: the presented slides the reviewer answers "keep" for; proceed: the
\* answer to the final "Remove n approved slides?"
ReviewSlides(v, review_all, auto_approve, keep, proceed) ==
    LET d == dirs[v]
        m == metadata[v]
        all_slides == LoadedSlides(d, m)
        slides_to_review ==
            SlidesToReview(all_slides, attrs, SlideConfig, review_all)
        slides_to_keep ==
            SlidesToKeep(all_slides, attrs, SlideConfig, review_all)
        approved_removals ==
            IF auto_approve THEN slides_to_review
            ELSE SelectSeq(slides_to_review, LAMBDA r : r.slide \notin keep)
        rejected_removals ==
            IF auto_approve THEN <<>>
            ELSE SelectSeq(slides_to_review, LAMBDA r : r.slide \in keep)
        final_slides == slides_to_keep \o SlidesOf(rejected_removals)
        removed == Range(SlidesOf(approved_removals))
        d1 == [d EXCEPT !.files = @ \ removed, !.credited = @ \ removed]
        m1 == ReviewedMetadata(m, final_slides, Len(slides_to_review),
                               Len(approved_removals), Len(rejected_removals))
        sync == SyncVideoMetadataOn(d1, m1, FALSE)
        seen == [auto_approve |-> auto_approve, review_all |-> review_all,
                 all_slides |-> all_slides,
                 presented |-> IF auto_approve THEN <<>> ELSE slides_to_review]
        NoChange(outcome) ==
            /\ Ran("review_slides", v,
                   [outcome |-> outcome, seen |-> seen, removed |-> {},
                    rewritten |-> m.slides, synced |-> FALSE,
                    keep |-> keep, proceed |-> proceed])
            /\ UNCHANGED <<progressFile, clock, appended, dirs, metadata>>
    IN /\ Idle /\ calls < MaxCalls
       /\ auto_approve => keep = {} /\ proceed
       /\ keep \subseteq Range(SlidesOf(slides_to_review))
       /\ approved_removals = <<>> => proceed
       /\ IF ~m.exists \/ all_slides = <<>> THEN NoChange("error")
          ELSE IF slides_to_review = <<>> THEN NoChange("passed")
          ELSE IF approved_removals = <<>> THEN NoChange("no_removals")
          ELSE IF ~proceed THEN NoChange("cancelled")
          ELSE /\ dirs' = [dirs EXCEPT ![v] = d1]
               /\ metadata' = [metadata EXCEPT ![v] = sync.metadata]
               /\ MarkReviewedThenSynced(v, Len(final_slides),
                                         Len(approved_removals))
               /\ Ran("review_slides", v,
                      [outcome |-> "done", seen |-> seen, removed |-> removed,
                       rewritten |-> m1.slides, synced |-> sync.marked,
                       keep |-> keep, proceed |-> proceed])
       /\ UNCHANGED <<procVars, attrs>>

\* the first k entries of the review list that the reviewer did not keep
AnsweredRemove(review, keep, k) ==
    {review[i].slide : i \in {j \in 1..k : review[j].slide \notin keep}}

\* a review loop that unlinks a slide as soon as the answer is "remove"
AfterAnswersUnlinked(d, m, review, keep, k) ==
    [dir |-> [d EXCEPT !.files = @ \ AnsweredRemove(review, keep, k),
                       !.credited = @ \ AnsweredRemove(review, keep, k)],
     metadata |-> m]

\* the slide directory and metadata.json when the reviewer has answered k
\* prompts of the review loop: the answers are in approved_removals and
\* rejected_removals, and nowhere else
AfterAnswers(d, m, review, keep, k) == [dir |-> d, metadata |-> m]

\* review_slides without --auto-approve, left by a KeyboardInterrupt that
\* Confirm.ask raises: at the keep/remove prompt after k answers, or at the
\* final confirmation when every answer is in
ReviewInterrupted(v, review_all, keep, k) ==
    LET d == dirs[v]
        m == metadata[v]
        all_slides == LoadedSlides(d, m)
        slides_to_review ==
            SlidesToReview(all_slides, attrs, SlideConfig, review_all)
        approved_removals ==
            SelectSeq(slides_to_review, LAMBDA r : r.slide \notin keep)
        after == AfterAnswers(d, m, slides_to_review, keep, k)
    IN /\ Idle /\ calls < MaxCalls
       /\ m.exists /\ all_slides # <<>> /\ slides_to_review # <<>>
       /\ k \in 0..Len(slides_to_review)
       /\ k = Len(slides_to_review) => approved_removals # <<>>
       /\ keep \subseteq {slides_to_review[i].slide : i \in 1..k}
       /\ dirs' = [dirs EXCEPT ![v] = after.dir]
       /\ metadata' = [metadata EXCEPT ![v] = after.metadata]
       /\ Ran("review_slides", v,
              [outcome |-> "interrupted",
               seen |-> [auto_approve |-> FALSE, review_all |-> review_all,
                         all_slides |-> all_slides,
                         presented |-> SubSeq(slides_to_review, 1,
                                        IF k < Len(slides_to_review)
                                        THEN k + 1 ELSE k)],
               removed |-> {}, rewritten |-> m.slides, synced |-> FALSE,
               keep |-> keep, proceed |-> FALSE, answered |-> k])
       /\ UNCHANGED <<progressFile, clock, appended, procVars, attrs>>

\* add_credit_overlay_to_image saved over every slide file: one more bar
WithCredit(d, at) ==
    [f \in DOMAIN at |->
        IF f \in d.files THEN [at[f] EXCEPT !.bars = @ + 1] ELSE at[f]]

\* add_credit_overlay.process_video
ProcessVideo(v, dry_run) ==
    LET d == dirs[v]
    IN /\ Idle /\ calls < MaxCalls
       /\ IF ~d.exists \/ d.files = {}
          THEN /\ Ran("process_video", v,
                      [outcome |-> "error", dry_run |-> dry_run])
               /\ UNCHANGED <<progressFile, clock, appended, dirs, metadata,
                              attrs>>
          ELSE IF dry_run
          THEN /\ Ran("process_video", v,
                      [outcome |-> "dry_run", dry_run |-> dry_run,
                       count |-> Cardinality(d.files)])
               /\ UNCHANGED <<progressFile, clock, appended, dirs, metadata,
                              attrs>>
          ELSE /\ dirs' = [dirs EXCEPT ![v].credited = d.files]
               /\ attrs' = WithCredit(d, attrs)
               /\ metadata' =
                    IF metadata[v].exists
                    THEN [metadata EXCEPT ![v].credit_overlay = TRUE]
                    ELSE metadata
               /\ Update(v, CreditsUpdates(TRUE, clock + 1))
               /\ Ran("process_video", v,
                      [outcome |-> "done", dry_run |-> dry_run,
                       processed |-> Cardinality(d.files)])
       /\ UNCHANGED procVars

\* a slide file deleted by hand
DeleteFile(v, f) ==
    /\ Idle /\ calls < MaxCalls
    /\ f \in dirs[v].files
    /\ dirs' = [dirs EXCEPT ![v].files = @ \ {f}, ![v].credited = @ \ {f}]
    /\ Ran("delete_file", v, [outcome |-> "done"])
    /\ UNCHANGED <<progressFile, clock, appended, procVars, metadata, attrs>>

\* v1 as extract_slides left it: a sharp first slide and any images after
\* it, with hashes equal to, near or far from the first one's, and possibly
\* a last slide file that its metadata does not list; v2 has no slides
\* directory
InitReview ==
    /\ InitStore /\ InitProcs
    /\ attrs \in [Slides -> Images]
    /\ attrs[1] = Image(FALSE, 0)
    /\ dirs = [v \in Videos |->
                IF v = "v1"
                THEN [NoDir EXCEPT !.exists = TRUE, !.files = Slides]
                ELSE NoDir]
    /\ \E listed \in {MaxSlides - 1, MaxSlides} :
          metadata = [v \in Videos |->
                IF v = "v1"
                THEN MetadataOf(SubSeq(AllSlides, 1, listed), FALSE, FALSE,
                                FALSE)
                ELSE NoMetadata]

NextReview ==
    \/ \E dry_run \in BOOLEAN : SyncVideoMetadata("v1", dry_run)
    \/ \E review_all, auto_approve, proceed \in BOOLEAN, keep \in SUBSET Slides :
          ReviewSlides("v1", review_all, auto_approve, keep, proceed)
    \/ \E dry_run \in BOOLEAN : ProcessVideo("v1", dry_run)
    \/ \E f \in Slides : DeleteFile("v1", f)

SpecReview == InitReview /\ [][NextReview]_vars

(***************************************************************************)
(* SpecCheckpoint: one review of v1, run to its end with the answers of    *)
(* the reviewer or ended by a keyboard interrupt.  The slides are as the   *)
(* extraction left them, or one file is gone, or the last is not listed.   *)
(***************************************************************************)
\* a sharp slide, a blurry one and one a bit off the first
CheckpointImages == {Image(FALSE, 0), Image(TRUE, 0), Image(FALSE, 1)}

InitCheckpoint ==
    /\ InitStore /\ InitProcs
    /\ attrs \in [Slides -> CheckpointImages]
    /\ attrs[1] = Image(FALSE, 0)
    /\ \E gone \in SUBSET {2} :
          dirs = [v \in Videos |->
                    IF v = "v1"
                    THEN [NoDir EXCEPT !.exists = TRUE, !.files = Slides \ gone]
                    ELSE NoDir]
    /\ \E listed \in {MaxSlides - 1, MaxSlides} :
          metadata = [v \in Videos |->
                IF v = "v1"
                THEN MetadataOf(SubSeq(AllSlides, 1, listed), FALSE, FALSE,
                                FALSE)
                ELSE NoMetadata]

NextCheckpoint ==
    \/ \E review_all, auto_approve, proceed \in BOOLEAN, keep \in SUBSET Slides :
          last.op = "none"
             /\ ReviewSlides("v1", review_all, auto_approve, keep, proceed)
    \/ \E review_all \in BOOLEAN, keep \in SUBSET Slides, k \in 0..MaxSlides :
          last.op = "none" /\ ReviewInterrupted("v1", review_all, keep, k)

SpecCheckpoint == InitCheckpoint /\ [][NextCheckpoint]_vars

(***************************************************************************)
(* The scripts with a --dry-run option on one video: a real run of any of  *)
(* them, or none, and then a dry run.                                      *)
(***************************************************************************)
\* cleanup_slides.cleanup_video
CleanupSlides(v, dry_run) ==
    LET run == CleanupSlidesOn(dirs[v], metadata[v], attrs, SlideConfig, dry_run)
    IN /\ Idle /\ calls < MaxCalls
       /\ dirs' = [dirs EXCEPT ![v] = run.dir]
       /\ metadata' = [metadata EXCEPT ![v] = run.metadata]
       /\ Ran("cleanup_slides", v, [dry_run |-> dry_run, ret |-> run.ret])
       /\ UNCHANGED <<progressFile, clock, appended, procVars, attrs>>

\* cleanup_black_frames.cleanup_video
CleanupBlackFrames(v, dry_run) ==
    LET run == CleanupBlackFramesOn(dirs[v], metadata[v], attrs, dry_run)
    IN /\ Idle /\ calls < MaxCalls
       /\ dirs' = [dirs EXCEPT ![v] = run.dir]
       /\ metadata' = [metadata EXCEPT ![v] = run.metadata]
       /\ Ran("cleanup_black_frames", v, [dry_run |-> dry_run, ret |-> run.ret])
       /\ UNCHANGED <<progressFile, clock, appended, procVars, attrs>>

\* fix_transition_duplicates.process_video
FixTransitionDuplicates(v, dry_run) ==
    LET run == FixTransitionDuplicatesOn(dirs[v], metadata[v], attrs, dry_run)
    IN /\ Idle /\ calls < MaxCalls
       /\ dirs' = [dirs EXCEPT ![v] = run.dir]
       /\ metadata' = [metadata EXCEPT ![v] = run.metadata]
       /\ Ran("fix_transition_duplicates", v,
              [dry_run |-> dry_run, ret |-> run.ret])
       /\ UNCHANGED <<progressFile, clock, appended, procVars, attrs>>

\* fix_duplicate_credits.process_video
FixDuplicateCredits(v, dry_run) ==
    LET run == FixDuplicateCreditsOn(dirs[v], attrs, dry_run)
    IN /\ Idle /\ calls < MaxCalls
       /\ attrs' = run.attrs
       /\ IF run.marked
          THEN Update(v, DuplicatesFixedUpdates(run.ret.fixed, clock + 1))
          ELSE UNCHANGED <<progressFile, clock, appended>>
       /\ Ran("fix_duplicate_credits", v, [dry_run |-> dry_run, ret |-> run.ret])
       /\ UNCHANGED <<procVars, dirs, metadata>>

\* a slide at 1m00s, a black frame at 0m00s, a slide at 0m03s that carries a
\* credit bar, and a copy of the first slide at 1m02s with two credit bars
CurationImages ==
    {Image(FALSE, 0),
     [Image(FALSE, 2047) EXCEPT !.dark = 90, !.timestamp = 0],
     [Image(FALSE, 2047) EXCEPT !.timestamp = 3, !.bars = 1],
     [Image(FALSE, 0) EXCEPT !.timestamp = 62, !.bars = 2]}

\* v1 with any of these images as its slide files, and possibly a last slide
\* file that its metadata does not list; v2 has no slides directory
InitCuration ==
    /\ InitStore /\ InitProcs
    /\ attrs \in [Slides -> CurationImages]
    /\ dirs = [v \in Videos |->
                IF v = "v1"
                THEN [NoDir EXCEPT
                        !.exists = TRUE, !.files = Slides,
                        !.credited = {f \in Slides : attrs[f].bars > 0}]
                ELSE NoDir]
    /\ \E listed \in {MaxSlides - 1, MaxSlides} :
          metadata = [v \in Videos |->
                IF v = "v1"
                THEN MetadataOf(SubSeq(AllSlides, 1, listed), FALSE, FALSE,
                                FALSE)
                ELSE NoMetadata]

\* the first run is real or dry, a run after a real run is dry
MayRun(dry_run) ==
    IF last.op = "none" THEN TRUE ELSE dry_run /\ ~last.result.dry_run

NextCuration ==
    \/ \E dry_run \in BOOLEAN :
          MayRun(dry_run) /\ SyncVideoMetadata("v1", dry_run)
    \/ \E dry_run \in BOOLEAN :
          MayRun(dry_run) /\ CleanupSlides("v1", dry_run)
    \/ \E dry_run \in BOOLEAN :
          MayRun(dry_run) /\ CleanupBlackFrames("v1", dry_run)
    \/ \E dry_run \in BOOLEAN :
          MayRun(dry_run) /\ FixTransitionDuplicates("v1", dry_run)
    \/ \E dry_run \in BOOLEAN :
          MayRun(dry_run) /\ ProcessVideo("v1", dry_run)
    \/ \E dry_run \in BOOLEAN :
          MayRun(dry_run) /\ FixDuplicateCredits("v1", dry_run)

SpecCuration == InitCuration /\ [][NextCuration]_vars

(***************************************************************************)
(* SlideExtractor.deduplicate on its own: one pass over the first n slides *)
(* of a list of any images, in remove-mode or in mark-mode, and then a     *)
(* second pass over the list the first one returned.                       *)
(***************************************************************************)
DedupHashes == {0, 7, 2046, 2047}

DedupImages ==
    {[Image(FALSE, h) EXCEPT !.readable = r] : h \in DedupHashes, r \in BOOLEAN}

\* SlideConfig(remove_duplicates=False)
MarkConfig == [SlideConfig EXCEPT !.remove_duplicates = FALSE]

\* is_duplicate_of of slides that deduplicate has not seen yet
NoMarks == [s \in Slides |-> 0]

\* deduplicate(slides) with the given is_duplicate_of of the slides
DeduplicateSlides(slides, marks, config, rerun) ==
    /\ Idle
    /\ Ran("deduplicate", "v1",
           [config |-> config, slides |-> slides, marks |-> marks,
            rerun |-> rerun,
            out |-> Deduplicate(slides, attrs, config),
            marks_out |-> DuplicateMarks(slides, marks, attrs, config)])
    /\ UNCHANGED <<progressFile, clock, appended, procVars, dirVars>>

InitDedup ==
    /\ InitStore /\ InitProcs
    /\ attrs \in [Slides -> DedupImages]
    /\ dirs = [v \in Videos |-> NoDir]
    /\ metadata = [v \in Videos |-> NoMetadata]

NextDedup ==
    \/ \E n \in 1..MaxSlides, config \in {SlideConfig, MarkConfig} :
          /\ last.op = "none"
          /\ DeduplicateSlides(SubSeq(AllSlides, 1, n), NoMarks, config, FALSE)
    \/ /\ last.op = "deduplicate" /\ ~last.result.rerun
       /\ DeduplicateSlides(last.result.out, last.result.marks_out,
                            last.result.config, TRUE)

SpecDedup == InitDedup /\ [][NextDedup]_vars

(***************************************************************************)
(* Scene detection.  A frame is a record [hist, readable]: readable is     *)
(* whether cv2.imread opens the file, hist is its grayscale histogram, a   *)
(* sequence of pixel counts per brightness band.  cv2.compareHist with     *)
(* HISTCMP_CORREL is the Pearson correlation of the two histograms, which  *)
(* does not depend on their normalisation, and 1 when either is flat.      *)
(***************************************************************************)
RECURSIVE Sum(_)
Sum(h) == IF h = <<>> THEN 0 ELSE Head(h) + Sum(Tail(h))

Products(h1, h2) == [i \in 1..Len(h1) |-> h1[i] * h2[i]]

\* Len(h)^2 times the covariance of the two histograms
Covariance(h1, h2) == Len(h1) * Sum(Products(h1, h2)) - Sum(h1) * Sum(h2)

\* 1 - correlation > threshold / 100, in integers
SceneChanged(h1, h2, threshold) ==
    LET num  == Covariance(h1, h2)
        den2 == Covariance(h1, h1) * Covariance(h2, h2)
    IN  /\ den2 # 0
        /\ \/ num < 0
           \/ 10000 * num * num < (100 - threshold) * (100 - threshold) * den2

\* the loop of detect_scene_changes over frames[1:]
RECURSIVE SceneLoop(_, _, _, _, _)
SceneLoop(frames, candidates, prev_hist, at, config) ==
    IF frames = <<>> THEN candidates
    ELSE IF ~at[Head(frames)].readable
         THEN SceneLoop(Tail(frames), candidates, prev_hist, at, config)
         ELSE SceneLoop(Tail(frames),
                        IF SceneChanged(prev_hist, at[Head(frames)].hist,
                                        config.scene_threshold)
                        THEN Append(candidates, Head(frames))
                        ELSE candidates,
                        at[Head(frames)].hist, at, config)

\* SlideExtractor.detect_scene_changes
DetectSceneChanges(frames, at, config) ==
    IF frames = <<>> THEN <<>>
    ELSE IF ~at[Head(frames)].readable THEN <<Head(frames)>>
    ELSE SceneLoop(Tail(frames), <<Head(frames)>>, at[Head(frames)].hist,
                   at, config)

(***************************************************************************)
(* SlideExtractor.detect_scene_changes on its own, over any frames.        *)
(***************************************************************************)
Frame(hist) == [hist |-> hist, readable |-> TRUE]

UnreadableFrame == [hist |-> <<0, 0, 0>>, readable |-> FALSE]

\* a dark frame, two frames a little and somewhat lighter, a bright frame and
\* a flat one, and a file that does not open
Frames ==
    {Frame(<<9, 0, 0>>), Frame(<<6, 3, 0>>), Frame(<<5, 4, 0>>),
     Frame(<<0, 0, 9>>), Frame(<<3, 3, 3>>), UnreadableFrame}

\* detect_scene_changes(frames)
DetectSceneChangesIn(frames) ==
    /\ Idle /\ last.op = "none"
    /\ Ran("detect_scene_changes", "v1",
           [frames |-> frames,
            candidates |-> DetectSceneChanges(frames, attrs, SlideConfig)])
    /\ UNCHANGED <<progressFile, clock, appended, procVars, dirVars>>

InitScene ==
    /\ InitStore /\ InitProcs
    /\ attrs \in [Slides -> Frames]
    /\ dirs = [v \in Videos |-> NoDir]
    /\ metadata = [v \in Videos |-> NoMetadata]

NextScene ==
    \E n \in 0..MaxSlides : DetectSceneChangesIn(SubSeq(AllSlides, 1, n))

SpecScene == InitScene /\ [][NextScene]_vars

(***************************************************************************)
(* SlideExtractor.filter_quality and get_removal_reason on their own, over *)
(* a list of any images under several configurations.                      *)
(***************************************************************************)
\* (words, filler phrases) of an OCR text: a full slide, the 4 words of
\* "Copyright 2025 Acme Corp", a 12-word text with a filler phrase
OcrTexts == {<<30, 0>>, <<4, 1>>, <<12, 1>>}

QualityImages ==
    {[Image(b, 0) EXCEPT !.dark = d, !.words = t[1], !.fillers = t[2]] :
        b \in BOOLEAN, d \in {10, 90}, t \in OcrTexts}
    \cup {[Image(FALSE, 0) EXCEPT !.readable = FALSE],
          [Image(FALSE, 0) EXCEPT !.words = 28, !.fillers = 2]}

\* the option defaults, --keep-blurry, --keep-filler, --min-words 3
QualityConfigs ==
    {SlideConfig,
     [SlideConfig EXCEPT !.filter_blurry = FALSE],
     [SlideConfig EXCEPT !.filter_filler_text = FALSE],
     [SlideConfig EXCEPT !.min_ocr_words = 3]}

\* filter_quality(slides), and get_removal_reason of each of the slides
FilterQualitySlides(slides, config) ==
    /\ Idle /\ last.op = "none"
    /\ Ran("filter_quality", "v1",
           [config |-> config, slides |-> slides,
            filtered |-> FilterQuality(slides, attrs, config).filtered,
            removed_reasons |->
                FilterQuality(slides, attrs, config).removed_reasons,
            reasons |-> [s \in Range(slides) |->
                            GetRemovalReason(attrs[s], config)]])
    /\ UNCHANGED <<progressFile, clock, appended, procVars, dirVars>>

InitQuality ==
    /\ InitStore /\ InitProcs
    /\ attrs \in [Slides -> QualityImages]
    /\ dirs = [v \in Videos |-> NoDir]
    /\ metadata = [v \in Videos |-> NoMetadata]

NextQuality ==
    \E config \in QualityConfigs : FilterQualitySlides(AllSlides, config)

SpecQuality == InitQuality /\ [][NextQuality]_vars

(***************************************************************************)
(* extract_slides.py: the transcript text around a slide.                  *)
(***************************************************************************)
\* s[-n:]
LastOf(s, n) == IF Len(s) <= n THEN s ELSE SubSeq(s, Len(s) - n + 1, Len(s))

\* s[:n]
FirstOf(s, n) == IF Len(s) <= n THEN s ELSE SubSeq(s, 1, n)

NoContext == [before |-> <<>>, during |-> <<>>, after |-> <<>>]

\* the for loop of _find_context from segment i on: continue, break or append
\* to one of the three lists
RECURSIVE FindContextFrom(_, _, _, _, _, _)
FindContextFrom(segments, i, timestamp, window_before, window_after, found) ==
    IF i > Len(segments) THEN found
    ELSE LET seg_start == segments[i].start
             seg_end == seg_start + segments[i].duration
             text == segments[i].text
             rest(f) == FindContextFrom(segments, i + 1, timestamp,
                                        window_before, window_after, f)
         IN IF seg_end < timestamp - window_before THEN rest(found)
            ELSE IF seg_start > timestamp + window_after THEN found
            ELSE IF seg_end <= timestamp
                 THEN rest([found EXCEPT !.before = Append(@, text)])
            ELSE IF seg_start >= timestamp
                 THEN rest([found EXCEPT !.after = Append(@, text)])
            ELSE rest([found EXCEPT !.during = Append(@, text)])

\* _find_context(timestamp, segments, window_before, window_after): the
\* texts that ' '.join puts together, in their order
FindContext(timestamp, segments, window_before, window_after) ==
    LET found == FindContextFrom(segments, 1, timestamp, window_before,
                                 window_after, NoContext)
    IN [before |-> LastOf(found.before, 4),
        during |-> found.during,
        after |-> FirstOf(found.after, 4)]

(***************************************************************************)
(* SpecContext: _find_context on the transcripts of up to MaxSegments      *)
(* segments, in any order, for a slide at 60 s.                            *)
(***************************************************************************)
MaxSegments == 5

\* a segment that ends before the window, one that ends where the window
\* starts, one that ends at the slide, one across it, one that starts at the
\* slide and one that starts after the window
Timings ==
    {[start |-> 30, duration |-> 5], [start |-> 40, duration |-> 5],
     [start |-> 55, duration |-> 5], [start |-> 58, duration |-> 5],
     [start |-> 60, duration |-> 5], [start |-> 80, duration |-> 5]}

\* align_timestamps: self._find_context(slide.timestamp, segments)
FindContextOf(n) ==
    /\ Idle /\ last.op = "none"
    /\ Ran("_find_context", "v1",
           [segments |-> SubSeq(attrs, 1, n),
            context |-> FindContext(Image(FALSE, 0).timestamp,
                                    SubSeq(attrs, 1, n), 15, 15)])
    /\ UNCHANGED <<progressFile, clock, appended, procVars, dirVars>>

InitContext ==
    /\ InitStore /\ InitProcs
    /\ \E timing \in [1..MaxSegments -> Timings] :
          attrs = [i \in 1..MaxSegments |->
                      [start |-> timing[i].start,
                       duration |-> timing[i].duration, text |-> i]]
    /\ dirs = [v \in Videos |-> NoDir]
    /\ metadata = [v \in Videos |-> NoMetadata]

NextContext == \E n \in 0..MaxSegments : FindContextOf(n)

SpecContext == InitContext /\ [][NextContext]_vars

(***************************************************************************)
(* extract_slides.py: SlideExtractor.process, one stage at a time, for a   *)
(* single video (main --video) and for the workers of a batch (main --all).*)
(***************************************************************************)
max_retries == 3
base_delay == 30

RECURSIVE Pow2(_)
Pow2(n) == IF n = 0 THEN 1 ELSE 2 * Pow2(n - 1)

\* a run that has just entered process()
StartedRun(in_batch, keep_video, no_clip) ==
    [NoRun EXCEPT !.stage = "download_video", !.batch = in_batch,
                  !.keep_video = keep_video, !.use_clip = ~no_clip]

\* _classify_with_text_density: a frame that does not open is passed over
ClassifyWithTextDensity(candidates, at, config) ==
    SelectSeq(candidates,
              LAMBDA f : /\ at[f].readable
                         /\ config.text_density_min < at[f].words
                         /\ at[f].words < config.text_density_max)

\* the loop of _classify_with_clip; without the processor every frame
\* raises and is passed over
ClipSlides(run, candidates, at, config) ==
    SelectSeq(candidates,
              LAMBDA f : /\ run.clip_processor /\ at[f].readable
                         /\ at[f].slide_prob > config.clip_threshold)

\* _load_clip_model: the model, or None with config.use_clip set to False
\* when CLIPModel or CLIPProcessor cannot be imported or loaded
LoadClipModel(run, load) ==
    IF run.clip_model THEN [run |-> run, model |-> TRUE]
    ELSE IF load = "ok"
    THEN [run |-> [run EXCEPT !.clip_model = TRUE, !.clip_processor = TRUE,
                              !.load_attempts = @ + 1],
          model |-> TRUE]
    ELSE [run |-> [run EXCEPT !.clip_model = (load = "processor_fails"),
                              !.use_clip = FALSE,
                              !.load_attempts = @ + 1],
          model |-> FALSE]

\* _classify_with_clip: "import torch" comes before the guarded load
ClassifyWithClip(run, candidates, at, config, torch, load) ==
    IF ~torch
    THEN [run |-> run, slides |-> <<>>, raised |-> TRUE, method |-> "none"]
    ELSE LET loaded == LoadClipModel(run, load)
         IN IF ~loaded.model
            THEN [run |-> loaded.run,
                  slides |-> ClassifyWithTextDensity(candidates, at, config),
                  raised |-> FALSE, method |-> "text_density"]
            ELSE [run |-> loaded.run,
                  slides |-> ClipSlides(loaded.run, candidates, at, config),
                  raised |-> FALSE, method |-> "clip"]

\* classify_slides
ClassifySlidesOn(run, candidates, at, config, torch, load) ==
    IF run.use_clip
    THEN ClassifyWithClip(run, candidates, at, config, torch, load)
    ELSE [run |-> run,
          slides |-> ClassifyWithTextDensity(candidates, at, config),
          raised |-> FALSE, method |-> "text_density"]

\* an exception leaves process() and the worker with it
RaisedUncaught(run, type, message) ==
    [run EXCEPT !.stage = "raised", !.result = "error",
                !.error = [type |-> type, message |-> message]]

\* an exception leaves process(): _extract_single_video turns it into
\* {'success': False, ...}; from main --video it leaves the program
Raised(run, type, message) ==
    [run EXCEPT !.stage = IF run.batch THEN "returned" ELSE "raised",
                !.result = "error",
                !.error = [type |-> type, message |-> message]]

\* VideoDownloadError(f"Download failed after {max_retries} attempts: {e}")
VideoDownloadError(run, rate_limited) ==
    Raised([run EXCEPT !.attempts = @ + 1], "VideoDownloadError",
           IF rate_limited THEN "429" ELSE "unavailable")

\* the except clause of download_video with a wait that does not grow
DownloadFailedFlatDelay(run, rate_limited) ==
    IF rate_limited /\ run.attempts < max_retries - 1
    THEN [run EXCEPT !.attempts = @ + 1, !.waited = Append(@, base_delay)]
    ELSE VideoDownloadError(run, rate_limited)

\* the except clause of download_video: sleep and go round again, or raise
\* VideoDownloadError; run.attempts is the loop variable attempt
DownloadFailed(run, rate_limited) ==
    IF rate_limited /\ run.attempts < max_retries - 1
    THEN [run EXCEPT !.attempts = @ + 1,
                     !.waited = Append(@, base_delay * Pow2(run.attempts))]
    ELSE VideoDownloadError(run, rate_limited)

\* main --video: nothing to do when metadata.json is there, unless --force
ExtractVideo(v, force, keep_video, no_clip) ==
    /\ Idle
    /\ \A w \in Videos : extractor[w].stage = "idle"
    /\ extractor' = [extractor EXCEPT
                       ![v] = IF metadata[v].exists /\ ~force
                              THEN [NoRun EXCEPT !.stage = "skipped"]
                              ELSE StartedRun(FALSE, keep_video, no_clip)]
    /\ UNCHANGED <<storeVars, pc, local, req, snapshot, overlapped, completed,
                   batch, finalizer, dirVars, last>>

\* main --all: one task per pending video, or per video with --force
ExtractAll(force, keep_video, no_clip) ==
    LET pending == {v \in Videos : ~metadata[v].exists}
        submitted == IF force THEN Videos ELSE pending
    IN /\ Idle
       /\ \A w \in Videos : extractor[w].stage = "idle"
       /\ pending # {}
       /\ batch' = [batch EXCEPT !.submitted = submitted]
       /\ extractor' = [v \in Videos |->
                          IF v \in submitted
                          THEN StartedRun(TRUE, keep_video, no_clip)
                          ELSE extractor[v]]
       /\ UNCHANGED <<storeVars, pc, local, req, snapshot, overlapped,
                      completed, finalizer, dirVars, last>>

\* download_video: the first pass makes the directory and looks for
\* video.mp4; then one pass of the retry loop.  The loop variable and the
\* waits are gone when download_video returns.
DownloadAttempt(v, outcome) ==
    LET run == extractor[v]
        made == [dirs[v] EXCEPT !.exists = TRUE]
    IN /\ run.stage = "download_video"
       /\ IF run.attempts = 0 /\ dirs[v].video
          THEN /\ extractor' = [extractor EXCEPT
                                  ![v].stage = "extract_frames"]
               /\ dirs' = dirs
          ELSE IF outcome = "ok"
          THEN /\ extractor' = [extractor EXCEPT
                                  ![v].stage = "extract_frames",
                                  ![v].attempts = 0, ![v].waited = <<>>]
               /\ dirs' = [dirs EXCEPT ![v] = [made EXCEPT !.video = TRUE]]
          ELSE /\ extractor' = [extractor EXCEPT
                                  ![v] = DownloadFailed(run,
                                             outcome = "rate_limited")]
               /\ dirs' = [dirs EXCEPT ![v] = made]
       /\ UNCHANGED <<storeVars, pc, local, req, snapshot, overlapped,
                      completed, batch, finalizer, metadata, attrs, last>>

\* extract_frames: frames/ is made before the frame rate is read
ExtractFrames(v, fps) ==
    /\ extractor[v].stage = "extract_frames"
    /\ dirs' = [dirs EXCEPT ![v].frames = TRUE]
    /\ extractor' = [extractor EXCEPT
                       ![v] = IF fps = 0
                              THEN Raised(@, "ValueError",
                                          "Could not read video FPS")
                              ELSE [@ EXCEPT !.stage = "classify_slides"]]
    /\ UNCHANGED <<storeVars, pc, local, req, snapshot, overlapped, completed,
                   batch, finalizer, metadata, attrs, last>>

\* process goes on to save the metadata before the slide images
ClassifiedMetadataFirst(run, n, slides) ==
    IF n = 0 THEN [run EXCEPT !.stage = "cleanup", !.result = "no_slides"]
    ELSE [run EXCEPT !.slides = slides, !.stage = "save_metadata"]

\* where process goes after classify_slides: without slides straight to the
\* clean-up and the return, else to the saving of what is kept
Classified(run, n, slides) ==
    IF n = 0 THEN [run EXCEPT !.stage = "cleanup", !.result = "no_slides"]
    ELSE [run EXCEPT !.slides = slides,
                     !.stage = IF slides = <<>> THEN "save_metadata"
                               ELSE "save_slides"]

\* steps 3 to 8 of process: n frames are candidates, classify_slides takes
\* the slides among them, and these are filtered and deduplicated
ClassifySlides(v, n, torch, load) ==
    LET classified == ClassifySlidesOn(extractor[v], SubSeq(AllSlides, 1, n),
                                       attrs, SlideConfig, torch, load)
        slides == Deduplicate(FilterQuality(classified.slides, attrs,
                                            SlideConfig).filtered,
                              attrs, SlideConfig)
    IN /\ extractor[v].stage = "classify_slides"
       /\ extractor' = [extractor EXCEPT
             ![v] = IF classified.raised
                    THEN Raised(classified.run, "ImportError", "torch")
                    ELSE Classified(classified.run, Len(classified.slides),
                                    slides)]
       /\ UNCHANGED <<storeVars, pc, local, req, snapshot, overlapped,
                      completed, batch, finalizer, dirVars, last>>

\* one pass of "for slide in slides: self._save_slide_image(slide)"
SaveSlideImage(v, opens) ==
    LET run == extractor[v]
        slide == run.slides[run.saved + 1]
    IN /\ run.stage = "save_slides"
       /\ IF opens
          THEN /\ dirs' = [dirs EXCEPT ![v].files = @ \cup {slide}]
               /\ extractor' = [extractor EXCEPT
                     ![v].saved = @ + 1,
                     ![v].stage = IF run.saved + 1 = Len(run.slides)
                                  THEN "save_metadata" ELSE "save_slides"]
          ELSE /\ dirs' = dirs
               /\ extractor' = [extractor EXCEPT
                                  ![v] = Raised(@, "OSError", "open")]
       /\ UNCHANGED <<storeVars, pc, local, req, snapshot, overlapped,
                      completed, batch, finalizer, metadata, attrs, last>>

\* _save_metadata: open(metadata_path, 'w') and json.dump
SaveMetadata(v) ==
    /\ extractor[v].stage = "save_metadata"
    /\ metadata' = [metadata EXCEPT
                      ![v] = MetadataOf(extractor[v].slides, FALSE, FALSE,
                                        FALSE)]
    /\ extractor' = [extractor EXCEPT ![v].writes = @ + 1,
                                      ![v].stage = "cleanup",
                                      ![v].result = "slides"]
    /\ UNCHANGED <<storeVars, pc, local, req, snapshot, overlapped, completed,
                   batch, finalizer, dirs, attrs, last>>

\* _cleanup_frames(), cleanup() unless keep_video, and the return
Cleanup(v) ==
    /\ extractor[v].stage = "cleanup"
    /\ dirs' = [dirs EXCEPT
                  ![v].frames = FALSE,
                  ![v].video = IF extractor[v].keep_video THEN @ ELSE FALSE]
    /\ extractor' = [extractor EXCEPT ![v].stage = "returned"]
    /\ UNCHANGED <<storeVars, pc, local, req, snapshot, overlapped, completed,
                   batch, finalizer, metadata, attrs, last>>

\* main --all: the body of "for future in as_completed(futures)"
Collect(v) ==
    /\ v \in batch.submitted
    /\ extractor[v].stage = "returned"
    /\ extractor' = [extractor EXCEPT ![v].stage = "collected"]
    /\ batch' = IF extractor[v].result = "error"
                THEN [batch EXCEPT !.errors = Append(@, v)]
                ELSE [batch EXCEPT !.results = Append(@, v)]
    /\ UNCHANGED <<storeVars, pc, local, req, snapshot, overlapped, completed, finalizer,
                   dirVars, last>>

(***************************************************************************)
(* SpecExtract: v1 is new, or was extracted before with or without         *)
(* --keep-video; v2 is new.                                                *)
(***************************************************************************)
\* frames that differ from their neighbours, the first sharp or blurry
DistinctImages ==
    [f \in Slides |-> Image(FALSE, IF f % 2 = 1 THEN 0 ELSE 2047)]

\* from_pretrained of the model and of the processor
ClipLoads == {"ok", "model_fails", "processor_fails"}

ExtractImages ==
    {DistinctImages, [DistinctImages EXCEPT ![1] = Image(TRUE, 0)]}

InitExtract ==
    /\ InitStore /\ InitProcs
    /\ attrs \in ExtractImages
    /\ \E extracted, video \in BOOLEAN :
          /\ video => extracted
          /\ dirs = [v \in Videos |->
                      IF v = "v1" /\ (extracted \/ video)
                      THEN [NoDir EXCEPT
                              !.exists = TRUE, !.video = video,
                              !.files = IF extracted THEN Slides ELSE {}]
                      ELSE NoDir]
          /\ metadata = [v \in Videos |->
                      IF v = "v1" /\ extracted
                      THEN MetadataOf(AllSlides, TRUE, FALSE, FALSE)
                      ELSE NoMetadata]

NextExtract ==
    \/ \E v \in Videos, force, keep_video, no_clip \in BOOLEAN :
          ExtractVideo(v, force, keep_video, no_clip)
    \/ \E force, keep_video, no_clip \in BOOLEAN :
          ExtractAll(force, keep_video, no_clip)
    \/ \E v \in Videos, outcome \in {"ok", "rate_limited", "failed"} :
          DownloadAttempt(v, outcome)
    \/ \E v \in Videos, fps \in {0, 30} : ExtractFrames(v, fps)
    \/ \E v \in Videos, n \in 0..MaxSlides, torch \in BOOLEAN,
          load \in {"ok", "model_fails"} :
          ClassifySlides(v, n, torch, load)
    \/ \E v \in Videos, opens \in BOOLEAN : SaveSlideImage(v, opens)
    \/ \E v \in Videos : SaveMetadata(v)
    \/ \E v \in Videos : Cleanup(v)
    \/ \E v \in Videos : Collect(v)

SpecExtract == InitExtract /\ [][NextExtract]_vars

(***************************************************************************)
(* SpecClassify: classify_slides called again and again on one extractor   *)
(* built with use_clip, with torch installed or not and a CLIP load that   *)
(* works, fails or fails half-way.                                         *)
(***************************************************************************)
\* a frame with some words that is no slide for CLIP, a slide with a few
\* words, a slide full of words and a frame that does not open
ClassifyImages ==
    {[Image(FALSE, 0) EXCEPT !.slide_prob = 20],
     [Image(FALSE, 0) EXCEPT !.words = 4],
     [Image(FALSE, 0) EXCEPT !.words = 400],
     [Image(FALSE, 0) EXCEPT !.readable = FALSE]}

\* extractor.classify_slides(candidates)
ClassifyCandidates(v, n, torch, load) ==
    LET candidates == SubSeq(AllSlides, 1, n)
        classified == ClassifySlidesOn(extractor[v], candidates, attrs,
                                       SlideConfig, torch, load)
    IN /\ Idle /\ calls < MaxCalls
       /\ extractor' = [extractor EXCEPT ![v] = classified.run]
       /\ Ran("classify_slides", v,
              [candidates |-> candidates, slides |-> classified.slides,
               raised |-> classified.raised, method |-> classified.method,
               torch |-> torch])
       /\ UNCHANGED <<progressFile, clock, appended, pc, local, req, snapshot,
                      overlapped, completed, batch, finalizer, dirVars>>

InitClassify ==
    /\ InitStore /\ InitProcs
    /\ attrs \in [Slides -> ClassifyImages]
    /\ dirs = [v \in Videos |-> NoDir]
    /\ metadata = [v \in Videos |-> NoMetadata]

NextClassify ==
    \E n \in 0..MaxSlides, torch \in BOOLEAN, load \in ClipLoads :
        ClassifyCandidates("v1", n, torch, load)

SpecClassify == InitClassify /\ [][NextClassify]_vars

(***************************************************************************)
(* SpecSync: sync_video_metadata on its own, in real and in dry runs, on a *)
(* video whose directory and metadata.json disagree in every way: slide    *)
(* files deleted since the extraction (dangling entries), a last file the  *)
(* metadata does not list (orphaned), and files deleted between two runs.  *)
(***************************************************************************)
InitSync ==
    /\ InitStore /\ InitProcs
    /\ attrs = SharpImages
    /\ \E gone \in SUBSET Slides :
          dirs = [v \in Videos |->
                    IF v = "v1"
                    THEN [NoDir EXCEPT !.exists = TRUE, !.files = Slides \ gone]
                    ELSE NoDir]
    /\ \E listed \in {MaxSlides - 1, MaxSlides} :
          metadata = [v \in Videos |->
                IF v = "v1"
                THEN MetadataOf(SubSeq(AllSlides, 1, listed), FALSE, FALSE,
                                FALSE)
                ELSE NoMetadata]

NextSync ==
    \/ \E v \in Videos, dry_run \in BOOLEAN : SyncVideoMetadata(v, dry_run)
    \/ \E f \in Slides : DeleteFile("v1", f)

SpecSync == InitSync /\ [][NextSync]_vars

(***************************************************************************)
(* SpecStatus: the curation workflow on two videos, with the dashboard.    *)
(* get_status_summary reads the store once, then goes through the videos   *)
(* that have slides in the order the directory listing gives them; for a   *)
(* video with no record or with status pending it looks at the files and,  *)
(* when the video appears completed, has sync_video_progress_from_state    *)
(* write the flags before it reads the record again.                       *)
(***************************************************************************)
\* get_all_videos_with_slides, as a set: iterdir gives them in any order
AllVideosWithSlides == {v \in Videos : dirs[v].exists /\ dirs[v].files # {}}

\* the orders a directory listing can have
Orders ==
    {order \in UNION {[1..n -> Videos] : n \in 0..Cardinality(Videos)} :
        \A i, j \in DOMAIN order : order[i] = order[j] => i = j}

\* summary as get_status_summary initialises it
EmptySummary(total) ==
    [total_videos |-> total, pending |-> <<>>, reviewed |-> <<>>,
     credits_added |-> <<>>, completed |-> <<>>, videos |-> EmptyMap]

\* vid_progress.get(key, False) on the dict the loop holds for the video
GetFlag(vid_progress, key) ==
    IF key \in DOMAIN vid_progress THEN vid_progress[key] ELSE FALSE

\* PlaceVideo that does not read the record again after the reconciliation
PlaceVideoStale(video_id, video_progress, st, first) ==
    LET vid0 == IF video_id \in DOMAIN video_progress
                THEN video_progress[video_id] ELSE EmptyMap
        untracked == DOMAIN vid0 = {}
                     \/ ("status" \in DOMAIN vid0 /\ vid0["status"] = "pending")
        detected == DetectVideoState(dirs[video_id], metadata[video_id], first)
        appears_completed ==
            /\ untracked /\ ~detected.error
            /\ detected.has_been_reviewed
            /\ (detected.has_credits_in_metadata
                \/ detected.has_credits_in_images)
            /\ detected.metadata_synced
        now == st.clock + 1
        updates == SyncUpdates(detected,
                               GetVideoProgress(st.file, video_id), now)
        synced == IF appears_completed /\ DOMAIN updates # {}
                  THEN [file |-> Stored(st.file, video_id, updates, now),
                        clock |-> now,
                        appended |-> Append(st.appended,
                                       AuditEntry(video_id, updates, now))]
                  ELSE [file |-> st.file, clock |-> st.clock,
                        appended |-> st.appended]
        vid_progress == vid0
        status == IF "status" \in DOMAIN vid_progress
                  THEN vid_progress["status"] ELSE "pending"
        list == IF status \in {"completed", "credits_added", "reviewed"}
                THEN status ELSE "pending"
        summary == [st.summary EXCEPT
                      ![list] = Append(@, video_id),
                      !.videos = SetKey(@, video_id,
                          [status |-> status,
                           reviewed |-> GetFlag(vid_progress, "reviewed"),
                           credits_added |->
                               GetFlag(vid_progress, "credits_added"),
                           metadata_synced |->
                               GetFlag(vid_progress, "metadata_synced")])]
    IN [file |-> synced.file, clock |-> synced.clock,
        appended |-> synced.appended, summary |-> summary]

\* the body of the loop for video_id: st is the progress file, the clock, the
\* audit entries appended and the summary so far; video_progress is the
\* 'videos' dict loaded before the loop
PlaceVideo(video_id, video_progress, st, first) ==
    LET vid0 == IF video_id \in DOMAIN video_progress
                THEN video_progress[video_id] ELSE EmptyMap
        untracked == DOMAIN vid0 = {}
                     \/ ("status" \in DOMAIN vid0 /\ vid0["status"] = "pending")
        detected == DetectVideoState(dirs[video_id], metadata[video_id], first)
        appears_completed ==
            /\ untracked /\ ~detected.error
            /\ detected.has_been_reviewed
            /\ (detected.has_credits_in_metadata
                \/ detected.has_credits_in_images)
            /\ detected.metadata_synced
        now == st.clock + 1
        updates == SyncUpdates(detected,
                               GetVideoProgress(st.file, video_id), now)
        synced == IF appears_completed /\ DOMAIN updates # {}
                  THEN [file |-> Stored(st.file, video_id, updates, now),
                        clock |-> now,
                        appended |-> Append(st.appended,
                                       AuditEntry(video_id, updates, now))]
                  ELSE [file |-> st.file, clock |-> st.clock,
                        appended |-> st.appended]
        vid_progress == IF appears_completed
                        THEN GetVideoProgress(synced.file, video_id)
                        ELSE vid0
        status == IF "status" \in DOMAIN vid_progress
                  THEN vid_progress["status"] ELSE "pending"
        list == IF status \in {"completed", "credits_added", "reviewed"}
                THEN status ELSE "pending"
        summary == [st.summary EXCEPT
                      ![list] = Append(@, video_id),
                      !.videos = SetKey(@, video_id,
                          [status |-> status,
                           reviewed |-> GetFlag(vid_progress, "reviewed"),
                           credits_added |->
                               GetFlag(vid_progress, "credits_added"),
                           metadata_synced |->
                               GetFlag(vid_progress, "metadata_synced")])]
    IN [file |-> synced.file, clock |-> synced.clock,
        appended |-> synced.appended, summary |-> summary]

\* for video_id in all_videos, from the i-th on
RECURSIVE PlaceVideosFrom(_, _, _, _, _)
PlaceVideosFrom(all_videos, i, video_progress, st, firsts) ==
    IF i > Len(all_videos) THEN st
    ELSE PlaceVideosFrom(all_videos, i + 1, video_progress,
            PlaceVideo(all_videos[i], video_progress, st,
                       firsts[all_videos[i]]),
            firsts)

\* get_status_summary; all_videos is the directory listing and firsts the
\* slide file that each video's glob gives first
GetStatusSummary(all_videos, firsts) ==
    LET st == PlaceVideosFrom(all_videos, 1, LoadProgress(progressFile).videos,
                 [file |-> progressFile, clock |-> clock,
                  appended |-> appended,
                  summary |-> EmptySummary(Len(all_videos))],
                 firsts)
    IN /\ Idle /\ calls < MaxCalls
       /\ Range(all_videos) = AllVideosWithSlides
       /\ \A v \in Videos : firsts[v] \in FirstFiles(dirs[v])
       /\ progressFile' = st.file
       /\ clock' = st.clock
       /\ appended' = st.appended
       /\ Called("get_status_summary", "v1", EmptyMap, st.summary)
       /\ UNCHANGED <<procVars, dirVars>>

\* v1 has slides and a metadata.json in any state earlier stages, run
\* before there was a progress store, can have left; v2 has no slides
\* directory or is freshly extracted and stays so
InitStatus ==
    /\ InitStore /\ InitProcs
    /\ attrs = SharpImages
    /\ \E reviewed, credited, synced, bars, second \in BOOLEAN :
          /\ dirs = [v \in Videos |->
                      IF v = "v1"
                      THEN [NoDir EXCEPT
                              !.exists = TRUE, !.files = Slides,
                              !.credited = IF bars THEN Slides ELSE {}]
                      ELSE IF second
                      THEN [NoDir EXCEPT !.exists = TRUE, !.files = Slides]
                      ELSE NoDir]
          /\ metadata = [v \in Videos |->
                      IF v = "v1"
                      THEN MetadataOf(AllSlides, reviewed, credited, synced)
                      ELSE IF second
                      THEN MetadataOf(AllSlides, FALSE, FALSE, FALSE)
                      ELSE NoMetadata]

\* the handlers work on v1; the dashboard goes through every video
NextStatus ==
    \/ \E dry_run \in BOOLEAN : SyncVideoMetadata("v1", dry_run)
    \/ \E keep \in {{}, {1}} : ReviewSlides("v1", TRUE, FALSE, keep, TRUE)
    \/ \E dry_run \in BOOLEAN : ProcessVideo("v1", dry_run)
    \/ \E first \in Slides \cup {0} : SyncVideoProgressFromState("v1", first)
    \/ \E all_videos \in Orders, firsts \in [Videos -> Slides \cup {0}] :
          GetStatusSummary(all_videos, firsts)

SpecStatus == InitStatus /\ [][NextStatus]_vars

(***************************************************************************)
(* finalize_curation.py.  finalizer.stack holds the processes that are     *)
(* running, the last one being the one that runs while the others wait in  *)
(* subprocess.run for their child.  finalize_curation launches             *)
(* "sync_slide_metadata.py --video <id>" for each directory of data/slides *)
(* with its output captured and its standard input inherited, so what the  *)
(* child reads comes from whoever started finalize_curation: an answer     *)
(* typed at the terminal, or the end of the input when there is none.      *)
(***************************************************************************)
\* how deep finalize_curation.py may be nested in the model
MaxNesting == 2

\* a process of the stack
Process(proc, stage, video, todo, skip_exports) ==
    [proc |-> proc, stage |-> stage, video |-> video, todo |-> todo,
     launched |-> <<>>, synced_count |-> 0, skip_exports |-> skip_exports]

\* the stack without its last process
Popped(stack) == SubSeq(stack, 1, Len(stack) - 1)

Top == finalizer.stack[Len(finalizer.stack)]

Running(proc, stage) ==
    /\ finalizer.stack # <<>>
    /\ Top.proc = proc /\ Top.stage = stage

\* how many finalize_curation.py processes there are
Nesting(stack) ==
    Cardinality({i \in DOMAIN stack : stack[i].proc = "finalize_curation"})

\* video_dirs = [d for d in DATA_SLIDES.iterdir() if d.is_dir()]
VideoDirs == {v \in Videos : dirs[v].exists}

\* finalize_curation up to its loop: with no directory it returns an error
FinalizeProcess(video_dirs, skip_exports) ==
    Process("finalize_curation",
            IF video_dirs = <<>> THEN "error" ELSE "syncing",
            "v1", video_dirs, skip_exports)

\* python scripts/finalize_curation.py [--skip-exports], typed by the user
FinalizeCuration(video_dirs, skip_exports) ==
    /\ finalizer.stack = <<>> /\ finalizer.runs = 0
    /\ Range(video_dirs) = VideoDirs
    /\ finalizer' = [finalizer EXCEPT
                       !.stack = <<FinalizeProcess(video_dirs, skip_exports)>>,
                       !.runs = 1]
    /\ UNCHANGED <<storeVars, pc, local, req, snapshot, overlapped, completed,
                   extractor, batch, dirVars, last>>

\* one pass of "for video_dir in video_dirs" up to run_command's
\* subprocess.run
LaunchSync ==
    /\ Running("finalize_curation", "syncing")
    /\ Top.todo # <<>>
    /\ finalizer' = [finalizer EXCEPT
          !.stack = Append(
              [@ EXCEPT ![Len(finalizer.stack)].todo = Tail(Top.todo),
                        ![Len(finalizer.stack)].launched = Append(Top.launched,
                                                     Head(Top.todo))],
              Process("sync_slide_metadata", "main", Head(Top.todo), <<>>,
                      FALSE))]
    /\ UNCHANGED <<storeVars, pc, local, req, snapshot, overlapped, completed,
                   extractor, batch, dirVars, last>>

\* sync_slide_metadata.main --video: sync_video_metadata, then the return
\* on an error and else _show_next_steps_after_sync up to its Prompt.ask
SyncMain ==
    LET v == Top.video
        sync == SyncVideoMetadataOn(dirs[v], metadata[v], FALSE)
    IN /\ Running("sync_slide_metadata", "main")
       /\ metadata' = [metadata EXCEPT ![v] = sync.metadata]
       /\ IF sync.marked THEN Update(v, MetadataSyncedUpdates(clock + 1))
          ELSE UNCHANGED <<progressFile, clock, appended>>
       /\ last' = [op |-> "sync_video_metadata", video_id |-> v,
                   updates |-> EmptyMap,
                   result |-> [dry_run |-> FALSE, ret |-> sync.ret]]
       /\ finalizer' = [finalizer EXCEPT
             !.stack[Len(finalizer.stack)].stage =
                 IF "error" \in DOMAIN sync.ret THEN "exit_0" ELSE "prompt"]
       /\ UNCHANGED <<calls, pc, local, req, snapshot, overlapped, completed,
                      extractor, batch, dirs, attrs>>

\* what can be typed at "Choose an option": A runs finalize_curation.py
\* after a "Continue?", B stands for the choices that run another script
\* and leave, E leaves; the choices that show something and ask again
\* leave the process where it is
Choices == {"A", "B", "E"}

\* Prompt.ask returns what the user typed
Answer(choice) ==
    /\ Running("sync_slide_metadata", "prompt")
    /\ finalizer' = [finalizer EXCEPT
          !.stack[Len(finalizer.stack)].stage =
              IF choice = "A" THEN "confirm" ELSE "exit_0"]
    /\ UNCHANGED <<storeVars, pc, local, req, snapshot, overlapped, completed,
                   extractor, batch, dirVars, last>>

\* Prompt.ask finds the standard input at its end: input() raises
\* EOFError, which nothing catches, and the script exits with status 1
EndOfInput ==
    /\ finalizer.stack # <<>>
    /\ Top.proc = "sync_slide_metadata" /\ Top.stage \in {"prompt", "confirm"}
    /\ finalizer' = [finalizer EXCEPT !.stack[Len(finalizer.stack)].stage = "exit_1"]
    /\ UNCHANGED <<storeVars, pc, local, req, snapshot, overlapped, completed,
                   extractor, batch, dirVars, last>>

\* the answer to "Continue?": on Y subprocess.run of finalize_curation.py,
\* in either case the loop is left
Continue(yes, video_dirs) ==
    /\ Running("sync_slide_metadata", "confirm")
    /\ Range(video_dirs) = VideoDirs
    /\ yes => Nesting(finalizer.stack) < MaxNesting
    /\ finalizer' = [finalizer EXCEPT
          !.stack = IF yes
                    THEN Append([@ EXCEPT ![Len(finalizer.stack)].stage = "exit_0"],
                                FinalizeProcess(video_dirs, FALSE))
                    ELSE [@ EXCEPT ![Len(finalizer.stack)].stage = "exit_0"],
          !.runs = IF yes THEN @ + 1 ELSE @]
    /\ UNCHANGED <<storeVars, pc, local, req, snapshot, overlapped, completed,
                   extractor, batch, dirVars, last>>

\* the child has exited and run_command returns its status: a status of 0
\* counts the video as synced
SyncReturned ==
    /\ finalizer.stack # <<>>
    /\ Top.proc = "sync_slide_metadata" /\ Top.stage \in {"exit_0", "exit_1"}
    /\ finalizer' = [finalizer EXCEPT
          !.stack = IF Len(@) = 1 THEN <<>>
                    ELSE [Popped(@) EXCEPT
                            ![Len(finalizer.stack) - 1].synced_count =
                                IF Top.stage = "exit_0" THEN @ + 1 ELSE @]]
    /\ UNCHANGED <<storeVars, pc, local, req, snapshot, overlapped, completed,
                   extractor, batch, dirVars, last>>

\* after the loop: the return of --skip-exports, or the three export
\* scripts, none of which reads its input, and the return
Exports ==
    /\ Running("finalize_curation", "syncing")
    /\ Top.todo = <<>>
    /\ finalizer' = [finalizer EXCEPT
          !.stack[Len(finalizer.stack)].stage =
              IF Top.skip_exports THEN "skipped" ELSE "complete"]
    /\ UNCHANGED <<storeVars, pc, local, req, snapshot, overlapped, completed,
                   extractor, batch, dirVars, last>>

\* finalize_curation.py exits; the one the user started leaves its result
FinalizeReturned ==
    /\ finalizer.stack # <<>>
    /\ Top.proc = "finalize_curation"
    /\ Top.stage \in {"error", "skipped", "complete"}
    /\ finalizer' = [finalizer EXCEPT
          !.stack = Popped(@),
          !.result = IF Len(finalizer.stack) = 1
                     THEN [outcome |-> Top.stage, synced |-> Top.synced_count,
                           launched |-> Top.launched]
                     ELSE @]
    /\ UNCHANGED <<storeVars, pc, local, req, snapshot, overlapped, completed,
                   extractor, batch, dirVars, last>>

\* v1 has slides, one of them perhaps deleted by hand; v2 has no directory,
\* a directory without metadata.json, or slides and their metadata
InitFinalize ==
    /\ InitStore /\ InitProcs
    /\ attrs = SharpImages
    /\ \E gone \in SUBSET {MaxSlides}, first \in BOOLEAN,
          second \in {"none", "bare", "slides"} :
          /\ dirs = [v \in Videos |->
                      IF v = "v1"
                      THEN IF first
                           THEN [NoDir EXCEPT !.exists = TRUE,
                                              !.files = Slides \ gone]
                           ELSE NoDir
                      ELSE IF second = "none" THEN NoDir
                      ELSE [NoDir EXCEPT !.exists = TRUE, !.files = Slides]]
          /\ metadata = [v \in Videos |->
                      IF (v = "v1" /\ first) \/ (v = "v2" /\ second = "slides")
                      THEN MetadataOf(AllSlides, FALSE, FALSE, FALSE)
                      ELSE NoMetadata]

NextFinalize ==
    \/ \E video_dirs \in Orders, skip_exports \in BOOLEAN :
          FinalizeCuration(video_dirs, skip_exports)
    \/ LaunchSync
    \/ SyncMain
    \/ \E choice \in Choices : Answer(choice)
    \/ EndOfInput
    \/ \E yes \in BOOLEAN, video_dirs \in Orders : Continue(yes, video_dirs)
    \/ SyncReturned
    \/ Exports
    \/ FinalizeReturned

SpecFinalize == InitFinalize /\ [][NextFinalize]_vars

(***************************************************************************)
(* Properties of the progress store, one call at a time.                   *)
(***************************************************************************)
StoredVideos == LoadProgress(progressFile).videos
StoredLog == LoadProgress(progressFile).audit_log

\* the status rule as the data model states it
StatusRule(reviewed, credits_added, metadata_synced) ==
    IF reviewed /\ credits_added /\ metadata_synced THEN "completed"
    ELSE IF credits_added THEN "credits_added"
    ELSE IF reviewed THEN "reviewed"
    ELSE "pending"

\* C1: after every update_video_progress the stored status of a video is
\* the status rule applied to its stored flags, whatever status was passed
C1_StatusIsDerived ==
    \A v \in DOMAIN StoredVideos :
        StoredVideos[v].status =
            StatusRule(StoredVideos[v].reviewed, StoredVideos[v].credits_added,
                       StoredVideos[v].metadata_synced)

\* reviewed and credited but not synced, right after a caller passed
\* status='completed': the stored status is 'credits_added'
C1_Witness ==
    /\ last.op = "update_video_progress"
    /\ last.updates = [status |-> "completed"]
    /\ last.video_id \in DOMAIN StoredVideos
    /\ LET r == StoredVideos[last.video_id]
       IN r.reviewed /\ r.credits_added /\ ~r.metadata_synced
          /\ r.status = "credits_added"

ProgressFlags == {"reviewed", "credits_added", "metadata_synced"}

\* C3: sync_video_progress_from_state leaves true every flag that was true
\* before it, and the only value it writes into a flag is true
C3_SyncNeverRegresses ==
    [][(last'.op = "sync_video_progress_from_state" /\ calls' = calls + 1) =>
        LET before == GetVideoProgress(progressFile, last'.video_id)
            after == GetVideoProgress(progressFile', last'.video_id)
        IN \A k \in ProgressFlags :
              /\ Truthy(before, k) => Truthy(after, k)
              /\ k \in DOMAIN last'.updates => last'.updates[k] = TRUE]_vars

\* a sync that updated the record of a video whose reviewed flag is set
\* although nothing in its metadata says it was reviewed
C3_Witness ==
    /\ last.op = "sync_video_progress_from_state"
    /\ last.result = "updated"
    /\ Truthy(GetVideoProgress(progressFile, last.video_id), "reviewed")
    /\ ~DetectVideoState(dirs[last.video_id], metadata[last.video_id],
                         0).has_been_reviewed

\* C7: each update_video_progress extends the audit log by exactly one
\* entry carrying the call's video_id, action and updates, a sync that finds
\* nothing to update appends none, and earlier entries stay as they are
\* (but for the cap dropping the oldest)
C7_AuditAppendOnly ==
    [][calls' = calls + 1 =>
        IF last'.result = "updated"
        THEN
               StoredLog' =
                 LastN(Append(StoredLog,
                        [timestamp |-> clock', video_id |-> last'.video_id,
                         action |-> IF "action" \in DOMAIN last'.updates
                                    THEN last'.updates["action"]
                                    ELSE "updated",
                         updates |-> last'.updates]), AUDIT_LOG_MAX)
        ELSE StoredLog' = StoredLog]_vars

\* a sync that found nothing to update, after earlier calls were logged
C7_Witness ==
    /\ last.op = "sync_video_progress_from_state"
    /\ last.result = "nothing"
    /\ Len(StoredLog) >= 2
    /\ StoredLog[1].action = "reviewed"
    /\ StoredLog[2].action = "updated"

\* C6: the audit log never holds more than 1000 entries, and it is the
\* most recent (at most 1000) entries appended, in append order
C6_AuditLogCapped ==
    /\ Len(StoredLog) <= AUDIT_LOG_MAX
    /\ StoredLog = LastN(appended, AUDIT_LOG_MAX)

\* more than 1000 entries were appended and the log holds the last 1000:
\* the oldest ones were dropped
C6_Witness ==
    /\ Len(appended) > AUDIT_LOG_MAX + 1
    /\ Len(StoredLog) = AUDIT_LOG_MAX
    /\ StoredLog[1] = appended[Len(appended) - AUDIT_LOG_MAX + 1]
    /\ StoredLog[AUDIT_LOG_MAX] = appended[Len(appended)]

(***************************************************************************)
(* Properties of the progress store under concurrent callers.              *)
(***************************************************************************)
\* C4: a record that is in the progress file when a call of
\* update_video_progress begins is in the file that the call saves, also
\* when the call's own read of the file failed
C4_RecordsNeverDeleted ==
    [][\A p \in Procs :
         (pc[p] = "writing" /\ pc'[p] = "idle") =>
             req[p].known \subseteq DOMAIN progressFile'.data.videos]_vars

\* whether call i of completed is the last one to write key k of its video
LastToSet(i, k) ==
    \A j \in (i + 1)..Len(completed') :
        completed'[j].video_id = completed'[i].video_id
            => k \notin DOMAIN completed'[j].updates

\* C5: a save puts in place exactly the saver's loaded snapshot plus its own
\* update, whatever was written since the snapshot was loaded; and as long
\* as no two load-modify-save sections have overlapped, every update and
\* every audit entry of every finished call is in the file
C5_LastWriterWins ==
    [][\A p \in Procs :
         (pc[p] = "writing" /\ pc'[p] = "idle") =>
           LET file == progressFile'.data
               v == req[p].video_id
           IN /\ progressFile'.state = "ok"
              /\ file.audit_log =
                   LastN(Append(snapshot[p].audit_log,
                                AuditEntry(v, req[p].updates, req[p].now)),
                         AUDIT_LOG_MAX)
              /\ DOMAIN file.videos = DOMAIN snapshot[p].videos \cup {v}
              /\ \A w \in DOMAIN snapshot[p].videos \ {v} :
                    file.videos[w] = snapshot[p].videos[w]
              /\ \A k \in DOMAIN req[p].updates :
                    file.videos[v][k] = req[p].updates[k]
              /\ ~overlapped =>
                    /\ Len(file.audit_log) = Len(completed')
                    /\ \A i \in 1..Len(completed') :
                          /\ file.audit_log[i] =
                               AuditEntry(completed'[i].video_id,
                                          completed'[i].updates, completed'[i].now)
                          /\ completed'[i].video_id \in DOMAIN file.videos
                          /\ \A k \in DOMAIN completed'[i].updates :
                                LastToSet(i, k) =>
                                  file.videos[completed'[i].video_id][k] =
                                      completed'[i].updates[k]]_vars

\* both calls have finished and the file holds neither the audit entry nor
\* the record of the one that saved first: its update is lost
C5_Witness ==
    /\ Idle /\ overlapped /\ Len(completed) = 2
    /\ progressFile.state = "ok"
    /\ ~completed[1].load_failed /\ ~completed[2].load_failed
    /\ completed[1].video_id \notin DOMAIN StoredVideos
    /\ \A j \in 1..Len(StoredLog) : StoredLog[j].timestamp # completed[1].now
    /\ StoredLog[Len(StoredLog)].timestamp = completed[2].now

(***************************************************************************)
(* Properties of the handlers that work on a slide directory.              *)
(***************************************************************************)
\* C2: after sync_video_metadata(video, dry_run=False) metadata.slides is
\* the list it was, restricted to the files on disk, in the same order; the
\* files on disk that were not listed are counted in 'orphaned' and not
\* added; 'removed' is the number of entries dropped; and when entries were
\* dropped stats.slides_detected is the number of files on disk
C2_SyncConverges ==
    [][(/\ last'.op = "sync_video_metadata"
        /\ calls' = calls + 1
        /\ ~last'.result.dry_run
        /\ "error" \notin DOMAIN last'.result.ret) =>
          LET v == last'.video_id
              before == metadata[v].slides
              after == metadata'[v].slides
              disk == dirs[v].files
              orphans == disk \ Range(before)
              ret == last'.result.ret
          IN /\ after = SelectSeq(before, LAMBDA f : f \in disk)
             /\ Range(after) \cap orphans = {}
             /\ ret.removed = Len(before) - Len(after)
             /\ IF "orphaned" \in DOMAIN ret
                THEN ret.orphaned = Cardinality(orphans)
                ELSE orphans = {}
             /\ ret.removed > 0 =>
                  metadata'[v].stats.slides_detected = Cardinality(disk)]_vars

\* C8: when review_slides has carried out the reviewer's decisions, the
\* files of the removed slides are gone, the slide list it wrote into the
\* metadata holds every kept slide exactly once and no removed slide,
\* human_reviewed and review_stats are recorded, and sync_video_metadata
\* has run on the result
C8_ReviewRewritesKeptSet ==
    [][(/\ last'.op = "review_slides"
        /\ calls' = calls + 1
        /\ last'.result.outcome = "done") =>
          LET v == last'.video_id
              res == last'.result
              all_slides == res.seen.all_slides
          IN /\ dirs'[v].files = dirs[v].files \ res.removed
             /\ \A s \in Range(all_slides) :
                   Count(res.rewritten, s) = IF s \in res.removed THEN 0 ELSE 1
             /\ Range(res.rewritten) \subseteq Range(all_slides)
             /\ metadata'[v].human_reviewed
             /\ metadata'[v].review_stats.present
             /\ metadata'[v].review_stats.approved_removal
                   = Cardinality(res.removed)
             /\ res.synced
             /\ metadata'[v].slides =
                   SelectSeq(res.rewritten, LAMBDA f : f \in dirs'[v].files)]_vars

\* C9: in an interactive review_slides every loaded slide that has a quality
\* removal reason, or that deduplicate drops, or any loaded slide in
\* review-all mode, is presented exactly once; no slide is presented twice;
\* and a presented slide that has a quality reason carries that reason
C9_FlaggedSlidesPresentedOnce ==
    [][(/\ last'.op = "review_slides"
        /\ calls' = calls + 1
        /\ last'.result.outcome # "error"
        /\ ~last'.result.seen.auto_approve) =>
          LET seen == last'.result.seen
              all_slides == seen.all_slides
              presented == SlidesOf(seen.presented)
              kept == Deduplicate(all_slides, attrs, SlideConfig)
          IN \A s \in Range(all_slides) :
                LET reason == GetRemovalReason(attrs[s], SlideConfig)
                IN /\ Count(presented, s) <= 1
                   /\ (seen.review_all \/ reason # "none"
                       \/ s \notin Range(kept)) => Count(presented, s) = 1
                   /\ \A i \in 1..Len(presented) :
                        (presented[i] = s /\ reason # "none") =>
                            seen.presented[i].reason = reason]_vars

\* C10: a review_slides that returns after the reviewer has answered for
\* every presented slide leaves reviewed set and slides_kept and
\* slides_removed recorded in the progress store; a process_video that
\* applied the overlay leaves credits_added set; a sync_video_metadata that
\* was no dry run leaves metadata_synced set
C10_CompletionSetsFlags ==
    [][calls' = calls + 1 =>
          LET r == GetVideoProgress(progressFile', last'.video_id)
          IN /\ (/\ last'.op = "review_slides"
                 /\ last'.result.outcome \in {"done", "no_removals"}) =>
                    /\ Truthy(r, "reviewed")
                    /\ {"slides_kept", "slides_removed"} \subseteq DOMAIN r
             /\ (/\ last'.op = "process_video"
                 /\ last'.result.outcome = "done") =>
                    Truthy(r, "credits_added")
             /\ (/\ last'.op = "sync_video_metadata"
                 /\ ~last'.result.dry_run
                 /\ "error" \notin DOMAIN last'.result.ret) =>
                    Truthy(r, "metadata_synced")]_vars

(***************************************************************************)
(* Properties of SlideExtractor.deduplicate.                               *)
(***************************************************************************)
\* whether slide b is within the threshold of slide a, both hashes computed
Near(a, b, config) ==
    /\ attrs[a].readable /\ attrs[b].readable
    /\ Distance(attrs[a].phash, attrs[b].phash) <= config.phash_threshold

\* whether slide i of the input of the last pass is in its output
KeptAt(i) == last.result.slides[i] \in Range(last.result.out)

\* the input positions before i that hold a kept slide slide i is near to
KeptNearBefore(i) ==
    {j \in 1..(i - 1) :
        /\ KeptAt(j)
        /\ Near(last.result.slides[j], last.result.slides[i],
                last.result.config)}

\* C11: every slide deduplicate leaves out or marks is within
\* phash_threshold of a slide it kept earlier in the pass, and two kept
\* slides whose hashes were computed are further than phash_threshold apart
\* and so never have the same hash
C11_DuplicatesNearKeptFar ==
    last.op = "deduplicate" =>
        LET r == last.result
        IN /\ \A i \in 1..Len(r.slides) :
                 (~KeptAt(i) \/ (~r.rerun /\ r.marks_out[r.slides[i]] # 0))
                     => KeptNearBefore(i) # {}
           /\ \A a, b \in Range(r.out) :
                 (a # b /\ attrs[a].readable /\ attrs[b].readable) =>
                    /\ Distance(attrs[a].phash, attrs[b].phash)
                          > r.config.phash_threshold
                    /\ attrs[a].phash # attrs[b].phash

\* a first pass that left one slide out and kept two slides exactly one bit
\* further apart than the threshold
C11_Witness ==
    /\ last.op = "deduplicate" /\ ~last.result.rerun
    /\ Len(last.result.slides) = 3 /\ Len(last.result.out) = 2
    /\ \A s \in Range(last.result.slides) : attrs[s].readable
    /\ Distance(attrs[last.result.out[1]].phash,
                attrs[last.result.out[2]].phash)
          = last.result.config.phash_threshold + 1

\* C12: in mark-mode a slide within phash_threshold of an earlier kept slide
\* is in the output with is_duplicate_of naming that slide, and the output is
\* as long as the input
C12_MarkModeKeepsDuplicates ==
    (last.op = "deduplicate" /\ ~last.result.rerun
     /\ ~last.result.config.remove_duplicates) =>
        LET r == last.result
        IN /\ Len(r.out) = Len(r.slides)
           /\ \A i \in 1..Len(r.slides) :
                 KeptNearBefore(i) # {} =>
                    /\ KeptAt(i)
                    /\ r.marks_out[r.slides[i]] \in
                          {r.slides[j] : j \in KeptNearBefore(i)}

\* C13: in remove-mode a slide is in the output exactly when its hash could
\* not be computed or no earlier slide of the output is within
\* phash_threshold of it, so a dropped slide is no reference for later
\* ones; two slides whose hashes differ by 3 bits give the first alone
C13_RemoveModeDropsDuplicates ==
    (last.op = "deduplicate" /\ last.result.config.remove_duplicates) =>
        LET r == last.result
        IN /\ \A i \in 1..Len(r.slides) :
                 KeptAt(i) <=>
                    (~attrs[r.slides[i]].readable \/ KeptNearBefore(i) = {})
           /\ r.out = SelectSeq(r.slides, LAMBDA s : s \in Range(r.out))
           /\ (/\ Len(r.slides) = 2
               /\ attrs[r.slides[1]].readable /\ attrs[r.slides[2]].readable
               /\ Distance(attrs[r.slides[1]].phash,
                           attrs[r.slides[2]].phash) = 3)
                 => r.out = <<r.slides[1]>>

\* the second slide was dropped for being near the first; the third is near
\* the dropped one, far from the first, and kept
C13_Witness ==
    /\ last.op = "deduplicate" /\ last.result.config.remove_duplicates
    /\ last.result.slides = <<1, 2, 3>> /\ last.result.out = <<1, 3>>
    /\ Near(2, 3, last.result.config)
    /\ ~Near(1, 3, last.result.config)
    /\ attrs[3].readable

\* the kept slide before position i that comes first in the input among
\* those slide i is near to
FirstNearBefore(i) ==
    last.result.slides[CHOOSE j \in KeptNearBefore(i) :
                          \A k \in KeptNearBefore(i) : j <= k]

\* C14: the slide a duplicate is recorded as a duplicate of is the first
\* kept slide, in input order, within phash_threshold of it
C14_FirstMatchWins ==
    (last.op = "deduplicate" /\ ~last.result.rerun
     /\ ~last.result.config.remove_duplicates) =>
        LET r == last.result
        IN \A i \in 1..Len(r.slides) :
              r.marks_out[r.slides[i]] =
                 IF attrs[r.slides[i]].readable /\ KeptNearBefore(i) # {}
                 THEN FirstNearBefore(i) ELSE 0

\* slide 3 is near both kept slides, nearer to the second, and is recorded
\* as a duplicate of the first
C14_Witness ==
    /\ last.op = "deduplicate" /\ ~last.result.rerun
    /\ ~last.result.config.remove_duplicates
    /\ last.result.slides = <<1, 2, 3>> /\ last.result.out = <<1, 2>>
    /\ Near(1, 3, last.result.config) /\ Near(2, 3, last.result.config)
    /\ Distance(attrs[2].phash, attrs[3].phash)
          < Distance(attrs[1].phash, attrs[3].phash)
    /\ last.result.marks_out[3] = 1

\* C15: a pass of deduplicate over the output of a pass returns that list,
\* in the same order, and leaves every is_duplicate_of as it was
C15_DeduplicateIdempotent ==
    (last.op = "deduplicate" /\ last.result.rerun) =>
        /\ last.result.out = last.result.slides
        /\ last.result.marks_out = last.result.marks

\* a second pass in mark-mode over two slides, after a first pass that
\* marked a third as a duplicate
C15_Witness ==
    /\ last.op = "deduplicate" /\ last.result.rerun
    /\ ~last.result.config.remove_duplicates
    /\ Len(last.result.out) = 2
    /\ \E s \in Slides : last.result.marks[s] # 0

(***************************************************************************)
(* Properties of the quality filter.                                       *)
(***************************************************************************)
\* the checks that reject the image when each is applied on its own
FailedChecks(a, config) ==
    {r \in {"blurry"} : config.filter_blurry /\ IsBlurry(a, config.blur_threshold)}
    \cup {r \in {"mostly_black"} : IsMostlyBlack(a)}
    \cup {r \in {"low_text"} : a.words < config.min_ocr_words}
    \cup {r \in {"filler_text"} : config.filter_filler_text /\ IsFillerText(a)}

Precedence == <<"blurry", "mostly_black", "low_text", "filler_text">>

\* the first failed check in precedence order, "none" when none failed
FirstFailed(a, config) ==
    IF FailedChecks(a, config) = {} THEN "none"
    ELSE Precedence[CHOOSE i \in 1..Len(Precedence) :
                       /\ Precedence[i] \in FailedChecks(a, config)
                       /\ \A j \in 1..(i - 1) :
                              Precedence[j] \notin FailedChecks(a, config)]

Filtered == last.op = "filter_quality"

\* the slides of the filtered list whose first failed check is r
FailedFirst(r) ==
    {s \in Range(last.result.slides) :
        FirstFailed(attrs[s], last.result.config) = r}

\* C16: the first failed check in the order blurry, mostly_black, low_text,
\* filler_text decides the reason, in get_removal_reason and in the tally of
\* filter_quality alike; a sharp, light 4-word copyright notice is low_text
\* while min_ocr_words is 10
C16_QualityPrecedence ==
    Filtered =>
        /\ \A s \in Range(last.result.slides) :
              /\ last.result.reasons[s] = FirstFailed(attrs[s], last.result.config)
              /\ (/\ attrs[s].readable /\ attrs[s].variance >= 100
                  /\ attrs[s].dark <= 85
                  /\ attrs[s].words = 4 /\ attrs[s].fillers = 1
                  /\ last.result.config.min_ocr_words = 10)
                    => last.result.reasons[s] = "low_text"
        /\ \A i \in 1..Len(Precedence) :
              last.result.removed_reasons[Precedence[i]]
                  = Cardinality(FailedFirst(Precedence[i]))

\* a slide failing every check and a copyright notice failing the two text
\* checks have been filtered
C16_Witness ==
    /\ Filtered
    /\ \E s \in Range(last.result.slides) :
          Cardinality(FailedChecks(attrs[s], last.result.config)) = 4
    /\ \E s \in Range(last.result.slides) :
          /\ FailedChecks(attrs[s], last.result.config) = {"low_text", "filler_text"}
          /\ attrs[s].words = 4

\* C17: a slide is dropped by filter_quality exactly when get_removal_reason
\* names a reason for it, the reason is one of the four quality reasons, a
\* kept slide has none, and the counters add up to the number dropped
C17_OneReasonPerRejection ==
    Filtered =>
        /\ \A s \in Range(last.result.slides) :
              /\ (s \notin Range(last.result.filtered))
                    <=> (last.result.reasons[s] # "none")
              /\ last.result.reasons[s] \in
                    {"none", "blurry", "mostly_black", "low_text", "filler_text"}
        /\ last.result.filtered
              = SelectSeq(last.result.slides,
                          LAMBDA s : last.result.reasons[s] = "none")
        /\ last.result.removed_reasons.blurry
             + last.result.removed_reasons.mostly_black
             + last.result.removed_reasons.low_text
             + last.result.removed_reasons.filler_text
              = Len(last.result.slides) - Len(last.result.filtered)

\* one slide was kept and the others dropped for different reasons
C17_Witness ==
    /\ Filtered
    /\ Len(last.result.filtered) = 1
    /\ Len(last.result.slides) >= 3
    /\ Cardinality({last.result.reasons[s] : s \in Range(last.result.slides)}) >= 3

(***************************************************************************)
(* Properties of scene detection.                                          *)
(***************************************************************************)
Detected == last.op = "detect_scene_changes"

\* the candidates are frames of the input in their original order, the first
\* frame first
SceneSubsequence ==
    Detected =>
        /\ Range(last.result.candidates) \subseteq Range(last.result.frames)
        /\ \A i, j \in 1..Len(last.result.candidates) :
              i < j => last.result.candidates[i] < last.result.candidates[j]
        /\ last.result.frames # <<>> =>
              /\ last.result.candidates # <<>>
              /\ last.result.candidates[1] = last.result.frames[1]

\* the readable frames before frame f
ReadableBefore(f) == {g \in 1..(f - 1) : attrs[g].readable}

\* the nearest readable frame before frame f
PreviousReadable(f) ==
    CHOOSE g \in ReadableBefore(f) : \A k \in ReadableBefore(f) : k <= g

\* a later readable frame with a readable frame before it is a candidate
\* exactly when it differs from that frame by more than scene_threshold
SceneRule ==
    Detected =>
        \A f \in Range(last.result.frames) :
            (f > 1 /\ attrs[f].readable /\ ReadableBefore(f) # {}) =>
                ((f \in Range(last.result.candidates))
                    <=> SceneChanged(attrs[PreviousReadable(f)].hist,
                                     attrs[f].hist, SlideConfig.scene_threshold))

\* SceneRule for inputs whose first frame is readable
SceneRuleFirstReadable ==
    Detected =>
        ((last.result.frames # <<>> /\ attrs[1].readable) => SceneRule)

\* C18: detect_scene_changes returns an order-preserving subsequence of its
\* input that starts with the first frame, and a later readable frame is in
\* it exactly when 1 - correlation with the previous readable frame's
\* histogram exceeds scene_threshold
C18_SceneChangesRule == SceneSubsequence /\ SceneRule

(***************************************************************************)
(* Properties of dry runs.                                                 *)
(***************************************************************************)
\* this step is a dry run of the script
DryRunOf(op) ==
    /\ calls' = calls + 1
    /\ last'.op = op
    /\ last'.result.dry_run

DryRunScripts ==
    {"sync_video_metadata", "cleanup_slides", "fix_transition_duplicates",
     "cleanup_black_frames", "process_video", "fix_duplicate_credits"}

\* C19: a dry run of sync_video_metadata, of either cleanup_video or of any
\* of the three process_video leaves every slide file and image, every
\* metadata.json and the progress store as they were
C19_DryRunMutatesNothing ==
    [][(\E op \in DryRunScripts : DryRunOf(op))
          => UNCHANGED <<dirs, attrs, metadata, progressFile>>]_vars

\* a dry run of cleanup_slides that found slides to remove, after a real run
\* that wrote the progress store
C19_Witness ==
    /\ calls = 2
    /\ progressFile # NoFile
    /\ last.op = "cleanup_slides" /\ last.result.dry_run
    /\ ~last.result.ret.error
    /\ last.result.ret.removed > 0
    /\ last.result.ret.removed_files # {}

\* the files of directory d that are gone from d2 or hold another image
FilesChanged(d, at, d2, at2) ==
    {f \in d.files : f \notin d2.files \/ at2[f] # at[f]}

\* the number a dry run reports as what it would remove
WouldRemove(ret) ==
    IF "would_remove" \in DOMAIN ret THEN ret.would_remove ELSE ret.removed

\* the file names a dry run prints
Names(ret) == IF "names" \in DOMAIN ret THEN ret.names ELSE {}

\* a dry run of sync_video_metadata reports the number of entries the real
\* run takes out of metadata.json
SyncDryRunMatches ==
    (DryRunOf("sync_video_metadata") /\ "error" \notin DOMAIN last'.result.ret)
        => last'.result.ret.removed
             = Len(metadata["v1"].slides)
               - Len(SyncVideoMetadataOn(dirs["v1"], metadata["v1"],
                                         FALSE).metadata.slides)

\* a dry run of cleanup_slides returns the files the real run deletes
CleanupSlidesDryRunMatches ==
    (DryRunOf("cleanup_slides") /\ ~last'.result.ret.error)
        => last'.result.ret.removed_files
             = FilesChanged(dirs["v1"], attrs,
                            CleanupSlidesOn(dirs["v1"], metadata["v1"], attrs,
                                            SlideConfig, FALSE).dir, attrs)

\* a dry run of cleanup_black_frames prints and counts the files the real
\* run deletes
BlackFramesDryRunMatches ==
    (DryRunOf("cleanup_black_frames") /\ ~last'.result.ret.error)
        => LET changed ==
                 FilesChanged(dirs["v1"], attrs,
                              CleanupBlackFramesOn(dirs["v1"], metadata["v1"],
                                                   attrs, FALSE).dir, attrs)
           IN /\ Names(last'.result.ret) = changed
              /\ WouldRemove(last'.result.ret) = Cardinality(changed)

\* a dry run of fix_transition_duplicates prints and counts the files the
\* real run deletes
TransitionDryRunMatches ==
    (DryRunOf("fix_transition_duplicates") /\ ~last'.result.ret.error)
        => LET changed ==
                 FilesChanged(dirs["v1"], attrs,
                              FixTransitionDuplicatesOn(dirs["v1"],
                                  metadata["v1"], attrs, FALSE).dir, attrs)
           IN /\ Names(last'.result.ret) = changed
              /\ WouldRemove(last'.result.ret) = Cardinality(changed)

\* a dry run of add_credit_overlay counts the files the real run overwrites
OverlayDryRunMatches ==
    (DryRunOf("process_video") /\ last'.result.outcome = "dry_run")
        => last'.result.count
             = Cardinality(FilesChanged(dirs["v1"], attrs, dirs["v1"],
                                        WithCredit(dirs["v1"], attrs)))

\* a dry run of fix_duplicate_credits counts the files the real run crops
DuplicateCreditsDryRunMatches ==
    (DryRunOf("fix_duplicate_credits") /\ ~last'.result.ret.error)
        => last'.result.ret.count
             = Cardinality(FilesChanged(dirs["v1"], attrs, dirs["v1"],
                              FixDuplicateCreditsOn(dirs["v1"], attrs,
                                                    FALSE).attrs))

\* the dry runs that detect what the real run changes
DryRunsThatDetect ==
    [][/\ SyncDryRunMatches
       /\ CleanupSlidesDryRunMatches
       /\ BlackFramesDryRunMatches
       /\ TransitionDryRunMatches
       /\ OverlayDryRunMatches]_vars

\* C20: each dry run reports the files, or the number of files or entries,
\* that the real run from the same state deletes or rewrites
C20_DryRunReportsRealChanges ==
    [][/\ SyncDryRunMatches
       /\ CleanupSlidesDryRunMatches
       /\ BlackFramesDryRunMatches
       /\ TransitionDryRunMatches
       /\ OverlayDryRunMatches
       /\ DuplicateCreditsDryRunMatches]_vars

\* C27: whichever frames are unreadable, the first included, every later
\* readable frame that differs from the readable frame before it by more
\* than scene_threshold is returned as a candidate
C27_UnreadableFramesSkipped ==
    Detected =>
        \A f \in Range(last.result.frames) :
            (/\ attrs[f].readable
             /\ ReadableBefore(f) # {}
             /\ SceneChanged(attrs[PreviousReadable(f)].hist, attrs[f].hist,
                             SlideConfig.scene_threshold))
                => f \in Range(last.result.candidates)

\* C27 for the frames after a readable first frame
UnreadableLaterFramesSkipped ==
    Detected =>
        ((last.result.frames # <<>> /\ attrs[1].readable)
            => C27_UnreadableFramesSkipped)

(***************************************************************************)
(* Progress only moves forward.                                            *)
(***************************************************************************)
MarkedFlags ==
    {"reviewed", "credits_added", "duplicates_fixed", "metadata_synced"}

\* pending < reviewed < credits_added < completed
StatusRank(status) ==
    CASE status = "pending" -> 0
      [] status = "reviewed" -> 1
      [] status = "credits_added" -> 2
      [] status = "completed" -> 3

\* C30: no call of mark_reviewed, mark_credits_added, mark_duplicates_fixed,
\* mark_metadata_synced or sync_video_progress_from_state takes a video out
\* of the store, sets one of its four flags from true to false or moves its
\* status backwards
C30_ProgressMovesForward ==
    [][\A v \in DOMAIN StoredVideos :
          /\ v \in DOMAIN LoadProgress(progressFile').videos
          /\ \A k \in MarkedFlags :
                Truthy(StoredVideos[v], k)
                    => Truthy(LoadProgress(progressFile').videos[v], k)
          /\ StatusRank(LoadProgress(progressFile').videos[v].status)
                >= StatusRank(StoredVideos[v].status)]_vars

\* mark_reviewed on a video whose credits were added before: its status was
\* and stays credits_added
C30_Witness ==
    /\ last.op = "mark_reviewed"
    /\ calls >= 2
    /\ last.video_id \in DOMAIN StoredVideos
    /\ LET r == StoredVideos[last.video_id]
       IN /\ Truthy(r, "reviewed") /\ Truthy(r, "credits_added")
          /\ ~Truthy(r, "metadata_synced")
          /\ r.status = "credits_added"

(***************************************************************************)
(* The transcript context of a slide.                                      *)
(***************************************************************************)
ContextFound == last.op = "_find_context"

SlideTime == Image(FALSE, 0).timestamp

\* [start, start + duration] overlaps [t - 15, t + 15]
Overlaps(seg) ==
    /\ seg.start + seg.duration >= SlideTime - 15
    /\ seg.start <= SlideTime + 15

EndsBefore(seg) == Overlaps(seg) /\ seg.start + seg.duration <= SlideTime

StartsAfter(seg) ==
    Overlaps(seg) /\ ~EndsBefore(seg) /\ seg.start >= SlideTime

IsDuring(seg) == Overlaps(seg) /\ ~EndsBefore(seg) /\ ~StartsAfter(seg)

\* the positions, in list order, of the segments of one part
PartOf(seg) ==
    IF EndsBefore(seg) THEN "before"
    ELSE IF StartsAfter(seg) THEN "after"
    ELSE IF IsDuring(seg) THEN "during"
    ELSE "outside"

RECURSIVE PositionsFrom(_, _, _)
PositionsFrom(segments, i, part) ==
    IF i > Len(segments) THEN <<>>
    ELSE IF PartOf(segments[i]) = part
         THEN <<i>> \o PositionsFrom(segments, i + 1, part)
    ELSE PositionsFrom(segments, i + 1, part)

TextsAt(segments, positions) ==
    [k \in 1..Len(positions) |-> segments[positions[k]].text]

ContextOfOverlapping(segments) ==
    [before |-> LastOf(TextsAt(segments,
                               PositionsFrom(segments, 1, "before")), 4),
     during |-> TextsAt(segments, PositionsFrom(segments, 1, "during")),
     after |-> FirstOf(TextsAt(segments,
                               PositionsFrom(segments, 1, "after")), 4)]

SortedByStart(segments) ==
    \A i, j \in 1..Len(segments) :
        i < j => segments[i].start <= segments[j].start

\* C29: the context of a slide is made of exactly the segments that overlap
\* the 15 s window around it, whatever the order of the list: the last 4 of
\* those that end at or before the slide, all of those across it and the
\* first 4 of those that start at or after it
C29_ContextOfOverlapping ==
    ContextFound =>
        last.result.context = ContextOfOverlapping(last.result.segments)

\* C29 for the transcripts that are in the order of their start times
SortedContextOfOverlapping ==
    (ContextFound /\ SortedByStart(last.result.segments))
        => C29_ContextOfOverlapping

\* five segments in order that end at or before the slide: the first is
\* left out of 'before'
SortedContextWitness ==
    /\ ContextFound /\ SortedByStart(last.result.segments)
    /\ Len(last.result.segments) = 5
    /\ last.result.context.before = <<2, 3, 4, 5>>

(***************************************************************************)
(* The download and its retries.                                           *)
(***************************************************************************)
Downloading(v) == extractor[v].stage = "download_video"

DownloadRaised(run) == run.error.type = "VideoDownloadError"

\* what every pass of download_video does, but for when it is fatal
DownloadPass(v) ==
    LET run == extractor[v]
        after == extractor'[v]
    IN \* a pass is the first, the second or the third
       /\ run.attempts < 3
       \* video.mp4 is there: the path is returned and nothing is fetched
       /\ (run.attempts = 0 /\ dirs[v].video)
             => (after.stage = "extract_frames" /\ dirs'[v] = dirs[v])
       \* a wait: 30 s after the first attempt, 60 s after the second
       /\ after.stage = "download_video"
             => /\ after.attempts = run.attempts + 1
                /\ after.attempts \in {1, 2}
                /\ after.waited = IF after.attempts = 1 THEN <<30>>
                                  ELSE <<30, 60>>
       \* a success: the path is returned and video.mp4 is there
       /\ after.stage = "extract_frames" => dirs'[v].video
       /\ after.stage \in {"download_video", "extract_frames"}
             \/ (DownloadRaised(after) /\ after.attempts = run.attempts + 1)

Terminated(v) == extractor[v].stage \in {"returned", "raised", "collected"}

\* C28: whenever process terminates, with slides saved, without slides or
\* by an error in any stage, the video's frames/ directory is gone
C28_FramesDeleted == \A v \in Videos : Terminated(v) => ~dirs[v].frames

\* C28 for the runs that return a result
FramesDeletedOnReturn ==
    \A v \in Videos :
        (Terminated(v) /\ extractor[v].result # "error") => ~dirs[v].frames

\* a run with slides has returned and frames/ is gone
FramesDeletedWitness ==
    \E v \in Videos :
        /\ Terminated(v) /\ extractor[v].result = "slides"
        /\ extractor[v].saved >= 2 /\ ~dirs[v].frames

(***************************************************************************)
(* The metadata file of an extraction run.                                 *)
(***************************************************************************)
\* metadata.json is written as the last persistence step, after every kept
\* slide image: a step that changes it belongs to a run that has saved all
\* its slides and has not written before, and a run that has written saves
\* no image
MetadataWrittenLast(v) ==
    /\ metadata'[v] # metadata[v]
          => /\ extractor[v].stage = "save_metadata"
             /\ extractor[v].saved = Len(extractor[v].slides)
             /\ extractor[v].slides # <<>>
                   => Range(extractor[v].slides) \subseteq dirs[v].files
             /\ extractor[v].writes = 0 /\ extractor'[v].writes = 1
    /\ extractor[v].writes > 0 => dirs'[v].files = dirs[v].files

\* a run that was aborted has written no metadata.json
AbortedWritesNothing(v) ==
    extractor'[v].result = "error" => extractor'[v].writes = 0

BatchDone ==
    /\ batch.submitted # {}
    /\ \A v \in batch.submitted : extractor[v].stage = "collected"

\* what a run has put on disk stays: a step of one video changes neither
\* the files nor the metadata.json of another
OthersUntouched ==
    \A v \in Videos :
        extractor'[v] = extractor[v]
            => (dirs'[v] = dirs[v] /\ metadata'[v] = metadata[v])

\* every worker can go on, whatever became of the others
OthersGoOn ==
    \A v \in batch.submitted :
        extractor[v].stage \notin {"returned", "collected"}
            => \/ ENABLED DownloadAttempt(v, "ok")
               \/ ENABLED ExtractFrames(v, 30)
               \/ ENABLED ClassifySlides(v, 0, TRUE, "ok")
               \/ ENABLED SaveSlideImage(v, TRUE)
               \/ ENABLED SaveMetadata(v)
               \/ ENABLED Cleanup(v)

\* C22: in a batch an exception in one video's run becomes that video's
\* error record, every other submitted video still runs to its own result
\* or error, nothing written for another video is undone, and results and
\* errors together are as many as the videos submitted
C22_BatchIndependent ==
    /\ []OthersGoOn
    /\ [][/\ OthersUntouched
          /\ \A v \in batch'.submitted : extractor'[v].stage # "raised"
          /\ Range(batch'.errors) =
                {v \in batch'.submitted :
                    /\ extractor'[v].stage = "collected"
                    /\ extractor'[v].result = "error"}
          /\ Range(batch'.results) =
                {v \in batch'.submitted :
                    /\ extractor'[v].stage = "collected"
                    /\ extractor'[v].result # "error"}
          /\ BatchDone'
                => Len(batch'.results) + Len(batch'.errors)
                      = Cardinality(batch'.submitted)]_vars

\* a batch of two: one video failed, the other has its slides and its
\* metadata.json
C22_Witness ==
    /\ BatchDone /\ batch.submitted = Videos
    /\ Len(batch.errors) = 1 /\ Len(batch.results) = 1
    /\ \E v \in Videos :
          /\ extractor[v].result = "slides"
          /\ metadata[v].exists /\ Len(metadata[v].slides) >= 2

(***************************************************************************)
(* The fallback when CLIP is not there.                                    *)
(***************************************************************************)
\* kept by text density: text_density_min < word_count < text_density_max
TextDensityKept(f) ==
    attrs[f].readable /\ 15 < attrs[f].words /\ attrs[f].words < 300

\* what a call of classify_slides leaves when CLIP cannot be loaded now or
\* could not be loaded before
FallsBack(run, after, result) ==
    /\ ~result.raised
    /\ after.use_clip => (after.clip_model /\ after.clip_processor)
    /\ ~run.use_clip
          => (~after.use_clip /\ after.load_attempts = run.load_attempts)
    /\ ~after.use_clip
          => result.slides = SelectSeq(result.candidates, TextDensityKept)

ClassifyCalled == last'.op = "classify_slides" /\ calls' = calls + 1

\* C26: when CLIP cannot be loaded, use_clip becomes and stays false, this
\* and every later call of classify_slides keeps exactly the candidates with
\* more than 15 and fewer than 300 words, no exception reaches the caller
\* and the load is not tried again
C26_ClipFallback ==
    [][ClassifyCalled
          => FallsBack(extractor["v1"], extractor'["v1"], last'.result)]_vars

\* C26 for the calls that find torch installed
LoadFailureFallsBack ==
    [][(ClassifyCalled /\ last'.result.torch)
          => FallsBack(extractor["v1"], extractor'["v1"], last'.result)]_vars

\* a second call after a load that failed: text density again, without a
\* second load, on candidates that CLIP would have judged otherwise
LoadFailureWitness ==
    /\ last.op = "classify_slides" /\ calls >= 2
    /\ ~extractor["v1"].use_clip /\ extractor["v1"].load_attempts = 1
    /\ last.result.method = "text_density"
    /\ Len(last.result.candidates) >= 2
    /\ last.result.slides # last.result.candidates
    /\ last.result.slides # <<>>

(***************************************************************************)
(* The human checkpoint of review_slides.                                  *)
(***************************************************************************)
\* a review of v1 has just ended
ReviewEnded == last.op = "none" /\ last'.op = "review_slides"

Presented(r) == {r.seen.presented[i].slide : i \in 1..Len(r.seen.presented)}

\* the slides for which the reviewer answered "remove"
AnsweredRemoveIn(r) ==
    IF r.outcome = "interrupted"
    THEN {r.seen.presented[i].slide : i \in 1..r.answered} \ r.keep
    ELSE Presented(r) \ r.keep

\* the reviewer said yes at "Remove n approved slides?"
Confirmed(r) == r.outcome # "interrupted" /\ r.proceed

\* C23: without --auto-approve a slide file is unlinked only when the
\* reviewer answered "remove" for it and then confirmed the removal; the
\* slides kept, the slides never presented and, when the removal is not
\* confirmed, all slides stay on disk and in metadata.json
C23_HumanCheckpoint ==
    [][(ReviewEnded /\ ~last'.result.seen.auto_approve)
          => LET r == last'.result
                 gone == dirs["v1"].files \ dirs'["v1"].files
             IN /\ gone \subseteq AnsweredRemoveIn(r)
                /\ gone # {} => Confirmed(r)
                /\ \A f \in dirs["v1"].files \cap Range(metadata["v1"].slides) :
                      (f \notin AnsweredRemoveIn(r) \/ ~Confirmed(r))
                         => /\ f \in dirs'["v1"].files
                            /\ f \in Range(metadata'["v1"].slides)]_vars

\* a review in which one flagged slide was kept and another removed: the
\* first is on disk and in metadata.json, the second is gone
C23_Witness ==
    /\ last.op = "review_slides" /\ last.result.outcome = "done"
    /\ ~last.result.seen.auto_approve
    /\ last.result.keep # {} /\ last.result.removed # {}
    /\ last.result.keep \subseteq dirs["v1"].files
    /\ last.result.keep \subseteq Range(metadata["v1"].slides)
    /\ last.result.removed \cap dirs["v1"].files = {}

\* C24: a review that a keyboard interrupt ends at a keep/remove prompt or
\* at the final confirmation leaves metadata.json, the slide files and the
\* progress store as they were
C24_InterruptChangesNothing ==
    [][(ReviewEnded /\ last'.result.outcome = "interrupted")
          => /\ metadata' = metadata
             /\ dirs' = dirs /\ attrs' = attrs
             /\ progressFile' = progressFile]_vars

\* an interrupt at the final confirmation, after a "remove" and a "keep"
C24_Witness ==
    /\ last.op = "review_slides" /\ last.result.outcome = "interrupted"
    /\ last.result.answered = Len(last.result.seen.presented)
    /\ last.result.answered >= 2
    /\ last.result.keep # {}
    /\ AnsweredRemoveIn(last.result) # {}
    /\ AnsweredRemoveIn(last.result) \subseteq dirs["v1"].files

(***************************************************************************)
(* Properties of sync_video_metadata (SpecSync).                           *)
(***************************************************************************)
\* the last call was a sync_video_metadata that was not a dry run and went
\* past the "in sync" return: it has rewritten metadata.json
SyncRewrote ==
    IF last.op = "sync_video_metadata"
    THEN ~last.result.dry_run /\ "orphaned" \in DOMAIN last.result.ret
    ELSE FALSE

\* stats.slides_detected and stats.unique_slides are the length of the list
CountersAgree(m) ==
    /\ m.stats.slides_detected = Len(m.slides)
    /\ m.stats.unique_slides = Len(m.slides)

\* C31: after sync_video_metadata(video, dry_run=False) has rewritten
\* metadata.json, stats.slides_detected and stats.unique_slides both equal
\* the number of entries of metadata.slides, whatever dangling entries and
\* orphaned files there were.
C31_SyncCountersAgree ==
    SyncRewrote => CountersAgree(metadata[last.video_id])

\* What holds: the counters are the number of slide files on disk, so they
\* agree with the list when the rewrite found no orphaned file.
CountersAgreeWithoutOrphans ==
    SyncRewrote =>
       /\ metadata[last.video_id].stats.slides_detected
             = Cardinality(dirs[last.video_id].files)
       /\ metadata[last.video_id].stats.unique_slides
             = Cardinality(dirs[last.video_id].files)
       /\ last.result.ret.orphaned = 0 => CountersAgree(metadata[last.video_id])

CountersAgreeWitness ==
    /\ SyncRewrote
    /\ last.result.ret.removed > 0
    /\ last.result.ret.orphaned = 0
    /\ metadata[last.video_id].slides # <<>>

\* the step is one call of sync_video_metadata
SyncCall == last'.op = "sync_video_metadata" /\ calls' = calls + 1

\* the last call was a sync_video_metadata that was not a dry run and
\* returned no error
SyncedBefore ==
    IF last.op = "sync_video_metadata"
    THEN ~last.result.dry_run /\ "error" \notin DOMAIN last.result.ret
    ELSE FALSE

\* C32: sync_video_metadata is idempotent: a run that comes right after a
\* run that was not a dry run, on the same video with no file changed in
\* between, leaves metadata.slides and stats as they are and reports
\* removed = 0.
C32_SyncIdempotent ==
    [][(SyncedBefore /\ SyncCall /\ last'.video_id = last.video_id)
         => /\ metadata'[last.video_id].slides = metadata[last.video_id].slides
            /\ metadata'[last.video_id].stats = metadata[last.video_id].stats
            /\ metadata' = metadata
            /\ last'.result.ret.removed = 0]_vars

\* two real runs in a row on v1, the first of which dropped dangling
\* entries and left an orphaned file for the second to go through again
C32_Witness ==
    /\ calls = 2 /\ clock = 2
    /\ SyncRewrote /\ last.video_id = "v1"
    /\ last.result.ret.orphaned > 0
    /\ Len(metadata["v1"].slides) < MaxSlides - 1

(***************************************************************************)
(* The counts a review records (SpecCheckpoint).                           *)
(***************************************************************************)
\* review_slides has removed slides and returned
ReviewRemoved ==
    IF last.op = "review_slides" THEN last.result.outcome = "done" ELSE FALSE

\* slides_kept + slides_removed of the stored record is the number of slides
\* loaded, slides_kept is the length of the list written to metadata.json,
\* and that is the number of loaded slides whose file is still on disk
ReviewCountsAddUp ==
    LET v == last.video_id
        res == last.result
        r == GetVideoProgress(progressFile, v)
        loaded == Range(res.seen.all_slides)
    IN /\ r["slides_kept"] + r["slides_removed"] = Len(res.seen.all_slides)
       /\ r["slides_kept"] = Len(res.rewritten)
       /\ Len(res.rewritten) = Cardinality(loaded \cap dirs[v].files)

\* C34: after a review_slides run that removes slides, slides_kept +
\* slides_removed in the progress store is the number of slides loaded for
\* review, slides_kept is the number of entries of the rewritten
\* metadata.slides, and that is the number of slide files left on disk for
\* the slides that were in the metadata.
C34_ReviewCountsAddUp == ReviewRemoved => ReviewCountsAddUp

\* the list review_slides wrote holds every loaded slide it did not remove
\* once, and no slide it removed
WroteKeptSet ==
    \A s \in Range(last.result.seen.all_slides) :
       Count(last.result.rewritten, s)
          = IF s \in last.result.removed THEN 0 ELSE 1

\* What holds: the counts add up whenever the list written is the kept set,
\* that is, when no slide that passed the quality tests was also presented
\* as a duplicate.
KeptSetCountsAddUp == (ReviewRemoved /\ WroteKeptSet) => ReviewCountsAddUp

KeptSetCountsWitness ==
    /\ ReviewRemoved /\ WroteKeptSet
    /\ ~last.result.seen.review_all
    /\ last.result.keep # {} /\ last.result.removed # {}
    /\ GetVideoProgress(progressFile, "v1")["slides_removed"] > 0

(***************************************************************************)
(* Properties of the workflow and the dashboard (SpecStatus).              *)
(***************************************************************************)
\* the metadata_synced flag of the video's stored record
SyncedFlag(f, v) == Truthy(GetVideoProgress(f, v), "metadata_synced")

\* mark_metadata_synced has been called for the video, which only
\* sync_video_metadata does
MarkedSynced(log, v) ==
    \E i \in 1..Len(log) :
       log[i].video_id = v /\ log[i].action = "metadata_synced"

\* sync_video_metadata has completed for the video at least once: it has
\* marked the video in the store, or it has left its flag in metadata.json
EverSynced(v) ==
    MarkedSynced(appended, v)
       \/ (metadata[v].exists /\ metadata[v].metadata_synced)

\* C33: a video's metadata_synced flag in the progress store is true only
\* after sync_video_metadata has completed for that video at least once;
\* neither get_status_summary nor sync_video_progress_from_state sets it
\* for a video that was never synced.
C33_SyncedOnlyBySync ==
    \A v \in Videos : SyncedFlag(progressFile, v) => EverSynced(v)

\* the step is a reconciliation: sync_video_progress_from_state called
\* directly or by get_status_summary
Reconciles ==
    last'.op \in {"sync_video_progress_from_state", "get_status_summary"}
       /\ calls' = calls + 1

\* C33 (amended): the flag becomes true only in a call of
\* sync_video_metadata that completes (mark_metadata_synced), or in a
\* reconciliation that finds metadata.json carrying metadata_synced or
\* carrying both human_reviewed and credit_overlay.added; a credit bar in
\* the images or review statistics alone never set it.
C33_SyncedBySyncOrAssumed ==
    [][\A v \in Videos :
         (~SyncedFlag(progressFile, v) /\ SyncedFlag(progressFile', v)) =>
            \/ /\ last'.op \in {"sync_video_metadata", "review_slides"}
               /\ last'.video_id = v
               /\ MarkedSynced(appended', v)
            \/ /\ Reconciles
               /\ metadata[v].exists
               /\ \/ metadata[v].metadata_synced
                  \/ metadata[v].human_reviewed /\ metadata[v].credit_overlay]_vars

\* the dashboard has set the flag of a video that was never synced, from
\* human_reviewed and credit_overlay.added
C33_Witness ==
    /\ last.op = "get_status_summary"
    /\ SyncedFlag(progressFile, "v1")
    /\ ~EverSynced("v1")
    /\ metadata["v1"].human_reviewed /\ metadata["v1"].credit_overlay
    /\ GetVideoProgress(progressFile, "v1")["status"] = "completed"

\* get_status_summary was the last call; last.result is the summary
Summarised == last.op = "get_status_summary"

Lists == {"pending", "reviewed", "credits_added", "completed"}

\* how many times the video is in the four lists together
Placements(summary, v) ==
    Count(summary.pending, v) + Count(summary.reviewed, v)
       + Count(summary.credits_added, v) + Count(summary.completed, v)

\* C37: get_status_summary places every video that has slides in exactly
\* one of the lists pending, reviewed, credits_added and completed (and no
\* other video in any), total_videos is the sum of the four list lengths,
\* and the list a video is in is the status stored for it when the call
\* returns, a video with no stored record counting as pending.
C37_SummaryPartitions ==
    Summarised =>
       LET summary == last.result
       IN /\ \A v \in Videos :
                Placements(summary, v)
                   = IF v \in AllVideosWithSlides THEN 1 ELSE 0
          /\ summary.total_videos
                = Len(summary.pending) + Len(summary.reviewed)
                  + Len(summary.credits_added) + Len(summary.completed)
          /\ \A v \in AllVideosWithSlides, list \in Lists :
                Count(summary[list], v) = 1
                   <=> GetVideoProgress(progressFile, v)["status"] = list
          /\ \A v \in AllVideosWithSlides :
                summary.videos[v].status
                   = GetVideoProgress(progressFile, v)["status"]

\* the dashboard has found two videos, has reconciled v1, which had no
\* record, to completed and has listed v2, which has none, as pending
C37_Witness ==
    /\ Summarised
    /\ last.result.total_videos = 2
    /\ last.result.completed = <<"v1">>
    /\ last.result.pending = <<"v2">>
    /\ calls = 1
    /\ "v1" \in DOMAIN StoredVideos /\ "v2" \notin DOMAIN StoredVideos

(***************************************************************************)
(* Reconciliation run twice (SpecMarks).                                   *)
(***************************************************************************)
\* the value a record holds under a key, as a set: empty when it has none
Field(r, k) == IF k \in DOMAIN r THEN {r[k]} ELSE {}

DateFields == {"reviewed_date", "credits_date", "metadata_synced_date"}

\* what sync_video_progress_from_state derives
DerivedFields ==
    {"reviewed", "credits_added", "metadata_synced", "status", "slides_kept"}
       \cup DateFields

\* the step is a call of sync_video_progress_from_state
ReconcileCall ==
    last'.op = "sync_video_progress_from_state" /\ calls' = calls + 1

\* C36: a call of sync_video_progress_from_state that comes right after
\* another one on the same video, the files being as they were, leaves the
\* video's reviewed, credits_added, metadata_synced, status, slides_kept and
\* its three date fields unchanged; and no call of it overwrites a date
\* field that has a value.
C36_ReconcileIdempotent ==
    [][ReconcileCall =>
         LET v == last'.video_id
             before == GetVideoProgress(progressFile, v)
             after == GetVideoProgress(progressFile', v)
         IN /\ (last.op = "sync_video_progress_from_state"
                /\ last.video_id = v) =>
                  \A k \in DerivedFields : Field(after, k) = Field(before, k)
            /\ \A k \in DateFields :
                  Field(before, k) # {} => Field(after, k) = Field(before, k)]_vars

\* v1 has been reconciled twice in a row: the first call set flags with
\* their dates, the second found the same flags and left the dates out
C36_Witness ==
    /\ last.op = "sync_video_progress_from_state" /\ last.video_id = "v1"
    /\ last.result = "updated"
    /\ Len(appended) = 2
    /\ \A i \in {1, 2} : /\ appended[i].action = "synced_from_state"
                         /\ appended[i].video_id = "v1"
    /\ DOMAIN appended[1].updates \cap DateFields # {}
    /\ DOMAIN appended[2].updates \cap DateFields = {}
    /\ GetVideoProgress(progressFile, "v1")["last_updated"] = 2

(***************************************************************************)
(* A batch of extractions run again (SpecExtract).                         *)
(***************************************************************************)
\* get_status()['pending']: the videos with no metadata.json, which are
\* the videos the next main --all without --force submits
StillPending == {v \in Videos : ~metadata[v].exists}

\* main --all has been through every future and none reported an error
BatchSucceeded == BatchDone /\ batch.errors = <<>>

\* C35: when extract_slides --all has processed every pending video without
\* error, get_status reports no pending video, so a second --all run
\* without --force processes nothing, whatever process() returned, a video
\* with no slide detected included.
C35_BatchConverges == BatchSucceeded => StillPending = {}

\* What holds: the batch converges when every run found a slide to
\* classify, and a video left pending is one whose run found none.
BatchConvergesWithSlides ==
    BatchSucceeded =>
       StillPending \subseteq {v \in batch.submitted :
                                  extractor[v].result = "no_slides"
                                     /\ extractor[v].writes = 0}

BatchConvergesWitness ==
    /\ BatchSucceeded /\ batch.submitted = Videos
    /\ StillPending = {}
    /\ \A v \in Videos : extractor[v].result = "slides"

(***************************************************************************)
(* The credit overlay applied again (SpecStatus).                          *)
(***************************************************************************)
\* the step is a process_video of add_credit_overlay that is no dry run and
\* found slide files to work on
OverlayCall ==
    /\ last'.op = "process_video" /\ calls' = calls + 1
    /\ last'.result.outcome = "done"

\* the credits of the video were added before: the store and metadata.json
\* both say so
CreditsAddedBefore(v) ==
    /\ Truthy(GetVideoProgress(progressFile, v), "credits_added")
    /\ metadata[v].exists /\ metadata[v].credit_overlay

\* C38: process_video run on a video whose credits were already added
\* (credits_added in the store, credit_overlay.added in the metadata)
\* leaves every slide image with a single credit bar, its height unchanged.
C38_OverlayRepeatable ==
    [][(OverlayCall /\ CreditsAddedBefore(last'.video_id)) =>
          \A f \in dirs[last'.video_id].files :
             attrs'[f].bars = 1 /\ attrs'[f] = attrs[f]]_vars

\* What holds: every run that is no dry run pastes one more bar under every
\* slide image, whatever the store and the metadata say.
OverlayAddsOneBar ==
    [][OverlayCall =>
          \A f \in dirs[last'.video_id].files :
             attrs'[f].bars = attrs[f].bars + 1]_vars

\* the overlay has run twice on v1 and the images carry two bars
OverlayTwiceWitness ==
    /\ last.op = "process_video"
    /\ Truthy(GetVideoProgress(progressFile, "v1"), "credits_added")
    /\ metadata["v1"].credit_overlay
    /\ dirs["v1"].files # {}
    /\ \A f \in dirs["v1"].files : attrs[f].bars = 2

(***************************************************************************)
(* finalize_curation.py and what it launches                               *)
(***************************************************************************)
Launched(proc) ==
    {i \in DOMAIN finalizer.stack : finalizer.stack[i].proc = proc}

WaitsForInput ==
    \E i \in Launched("sync_slide_metadata") :
        finalizer.stack[i].stage \in {"prompt", "confirm"}

\* C39: finalize_curation needs no user input: no script it launches waits
\* on an interactive prompt, and none starts finalize_curation again.
C39_FinalizeNeedsNoInput ==
    /\ ~WaitsForInput
    /\ Cardinality(Launched("finalize_curation")) <= 1
    /\ finalizer.runs <= 1

\* What does hold: the finalize_curation the user started, once it has
\* returned, has launched the sync once for each directory of data/slides.
FinalizeSyncsEachOnce ==
    IF finalizer.result.outcome = "none" THEN TRUE
    ELSE /\ Range(finalizer.result.launched) = VideoDirs
         /\ Len(finalizer.result.launched) = Cardinality(VideoDirs)
         /\ finalizer.result.outcome = "error" <=> VideoDirs = {}

\* the synced count of a finalize_curation whose input was at its end: the
\* videos with a metadata.json are the ones it does not count
FinalizeCompleted ==
    IF finalizer.result.outcome = "none" THEN FALSE
    ELSE /\ finalizer.result.outcome = "complete"
         /\ finalizer.result.synced < Cardinality(VideoDirs)

====
